---- MODULE Spec2Model ----
(***************************************************************************)
(* Model of linera-views ByteCollectionView (collection_view.rs) over a    *)
(* key-value store, and of the matching-engine example contract            *)
(* (examples/matching-engine/src/contract.rs, lib.rs).                     *)
(***************************************************************************)
EXTENDS Integers, Sequences, FiniteSets, TLC

(***************************************************************************)
(* Bounds                                                                  *)
(***************************************************************************)
\* number of distinct short keys the callers use
NumKeys == 3
\* largest value written into a register sub-view (0 is the default)
MaxVal == 1
\* number of collection operations in one run
MaxOps == 5
\* largest price of an order
MaxPrice == 2
\* largest amount of an order
MaxAmount == 2
\* number of orders submitted to the matching engine in one run
MaxOrders == 3
\* the number of calls of the contract in a run of CallSpec
MaxCalls == 2
\* Amount::MAX, the largest value of the integer type of Amount, scaled down
AmountMAX == 7
\* number of collection operations in one run of LockSpec
MaxLockOps == 4
\* number of completed collection operations in one run of AwaitSpec
MaxAwaitOps == 3

(***************************************************************************)
(* Options: None is <<>>, Some(x) is <<x>>                                 *)
(***************************************************************************)
None == <<>>

Some(x) == <<x>>

IsSome(o) == Len(o) = 1

(***************************************************************************)
(* Byte strings                                                            *)
(***************************************************************************)
RECURSIVE KeyOfBits(_)
\* the binary digits of n without the leading one
KeyOfBits(n) == IF n <= 1 THEN <<>> ELSE KeyOfBits(n \div 2) \o <<n % 2>>

\* the short keys the callers use: the first NumKeys byte strings over {0, 1},
\* shortest first: <<0>>, <<1>>, <<0, 0>>, <<0, 1>>, ...
ShortKeys == {KeyOfBits(i + 1) : i \in 1..NumKeys}

IsPrefix(p, s) == Len(p) <= Len(s) /\ \A i \in 1..Len(p) : p[i] = s[i]

Drop(s, n) == [i \in 1..(Len(s) - n) |-> s[i + n]]

MinInt(a, b) == IF a <= b THEN a ELSE b

\* Ord for Vec<u8> / [u8]: lexicographic, a proper prefix is smaller
LexLess(a, b) ==
    \E i \in 1..(MinInt(Len(a), Len(b)) + 1) :
        /\ \A j \in 1..(i - 1) : a[j] = b[j]
        /\ \/ i > Len(a) /\ i <= Len(b)
           \/ i <= Len(a) /\ i <= Len(b) /\ a[i] < b[i]

LexLeq(a, b) == a = b \/ LexLess(a, b)

RECURSIVE SortKeys(_)
\* the elements of a set of byte strings in increasing lexicographic order
SortKeys(S) ==
    IF S = {} THEN <<>>
    ELSE LET m == CHOOSE x \in S : \A y \in S : LexLeq(x, y)
         IN <<m>> \o SortKeys(S \ {m})

(***************************************************************************)
(* Context: base key, key derivation, store reads, batches                 *)
(***************************************************************************)
\* the base key of the context the collection is loaded from
BaseKey == <<7>>

MIN_VIEW_TAG == 1

KeyTagIndex == MIN_VIEW_TAG

KeyTagSubview == MIN_VIEW_TAG + 1

KeyTagHash == MIN_VIEW_TAG + 2

base_tag(base, tag) == base \o <<tag>>

base_tag_index(base, tag, index) == base \o <<tag>> \o index

get_index_key(index) == base_tag_index(BaseKey, KeyTagIndex, index)

get_subview_key(index) == base_tag_index(BaseKey, KeyTagSubview, index)

read_value(st, key) == IF key \in DOMAIN st THEN Some(st[key]) ELSE None

store_contains_key(st, key) == key \in DOMAIN st

\* the suffixes of the stored keys that start with prefix, in key order
find_keys_by_prefix(st, prefix) ==
    SortKeys({Drop(key, Len(prefix)) : key \in {x \in DOMAIN st : IsPrefix(prefix, x)}})

Put(key, value) == [op |-> "Put", key |-> key, value |-> Some(value)]

Delete(key) == [op |-> "Delete", key |-> key, value |-> None]

DeletePrefix(prefix) == [op |-> "DeletePrefix", key |-> prefix, value |-> None]

ApplyOp(st, o) ==
    IF o.op = "Put"
    THEN [x \in DOMAIN st \cup {o.key} |-> IF x = o.key THEN o.value[1] ELSE st[x]]
    ELSE IF o.op = "Delete"
    THEN [x \in DOMAIN st \ {o.key} |-> st[x]]
    ELSE [x \in {y \in DOMAIN st : ~IsPrefix(o.key, y)} |-> st[x]]

RECURSIVE write_batch(_, _)
\* the operations of a batch are applied in insertion order
write_batch(st, b) ==
    IF b = <<>> THEN st ELSE write_batch(ApplyOp(st, Head(b)), Tail(b))

(***************************************************************************)
(* The sub-view type W: a register view holding one value                  *)
(***************************************************************************)
Vals == 0..MaxVal

DefaultVal == 0

RegTagValue == MIN_VIEW_TAG

RegLoad(st, base) ==
    LET v == read_value(st, base_tag(base, RegTagValue))
    IN [stored |-> IF IsSome(v) THEN v[1] ELSE DefaultVal,
        update |-> None,
        dsf |-> FALSE]

RegGet(view) == IF IsSome(view.update) THEN view.update[1] ELSE view.stored

RegSet(view, v) == [view EXCEPT !.dsf = FALSE, !.update = Some(v)]

RegClear(view) == [view EXCEPT !.dsf = TRUE, !.update = Some(DefaultVal)]

\* the batch operations of the register and the register afterwards
RegFlush(view, base) ==
    IF view.dsf
    THEN [ops |-> <<Delete(base_tag(base, RegTagValue))>>,
          view |-> [stored |-> DefaultVal, update |-> None, dsf |-> FALSE]]
    ELSE IF IsSome(view.update)
    THEN [ops |-> <<Put(base_tag(base, RegTagValue), view.update[1])>>,
          view |-> [stored |-> view.update[1], update |-> None, dsf |-> FALSE]]
    ELSE [ops |-> <<>>, view |-> view]

RegHash(view) == <<"reg", RegGet(view)>>

(***************************************************************************)
(* ByteCollectionView state                                                *)
(***************************************************************************)
VARIABLES
    store,                  \* the key-value store behind the context
    delete_storage_first,   \* ByteCollectionView.delete_storage_first
    updates,                \* ByteCollectionView.updates (BTreeMap)
    stored_hash,            \* ByteCollectionView.stored_hash
    hash,                   \* ByteCollectionView.hash (the cached hash)
    batch,                  \* the batch the caller passes to flush and then writes
    sync,                   \* whether that batch is unwritten, and whether the view
                            \* was ever used while a batch was unwritten
    last,                   \* the last operation, its argument and its result
    snap,                   \* the store and the view right before the last flush
    clean,                  \* what the view showed right after the last load, flush
                            \* or write of the batch
    nops                    \* number of operations so far

collVars == <<store, delete_storage_first, updates, stored_hash, hash, batch, sync, last, snap,
             clean, nops>>

\* the state of the matching engine (examples/matching-engine)
VARIABLES
    next_order_number,      \* MatchingEngine.next_order_number
    orders,                 \* MatchingEngine.orders: order id -> KeyBook
    account_info,           \* MatchingEngine.account_info: owner -> its order ids
    bids,                   \* MatchingEngine.bids: price -> queue of the level
    asks,                   \* MatchingEngine.asks: price -> queue of the level
    custody,                \* the balance of the engine in token 0 and token 1
    executed                \* the last order, its outcome, transfers and fills

meVars == <<next_order_number, orders, account_info, bids, asks, custody, executed>>

\* the lock of ByteCollectionView.updates (async_lock::RwLock) and its users
VARIABLES
    guard,                  \* the short key of the live ReadGuardedView, if any
    waiting                 \* the call that waits in updates.write().await, if any

lockVars == <<guard, waiting>>

\* two prices, their custom serializations and what is read back from them
VARIABLES serialized

\* the call that is suspended at an await on the store, if any, with the
\* in-memory state of the collection when it was called
VARIABLES suspended

Removed == [tag |-> "Removed"]

SetOf(view) == [tag |-> "Set", view |-> view]

IsSet(u) == u.tag = "Set"

EmptyMap == [x \in {} |-> 0]

MapPut(m, k, v) == [x \in DOMAIN m \cup {k} |-> IF x = k THEN v ELSE m[x]]

MapRemove(m, k) == [x \in DOMAIN m \ {k} |-> m[x]]

(***************************************************************************)
(* ByteCollectionView operations, as functions of the fields               *)
(***************************************************************************)
Range(s) == {s[i] : i \in 1..Len(s)}

\* View::load: only the hash key is read
load(st) ==
    LET h == read_value(st, base_tag(BaseKey, KeyTagHash))
    IN [delete_storage_first |-> FALSE, updates |-> EmptyMap, stored_hash |-> h, hash |-> h]

\* a rollback that forgets to reset delete_storage_first
rollback_keeps_flag(sh) ==
    [delete_storage_first |-> delete_storage_first, updates |-> EmptyMap, hash |-> sh]

rollback(sh) == [delete_storage_first |-> FALSE, updates |-> EmptyMap, hash |-> sh]

clear == [delete_storage_first |-> TRUE, updates |-> EmptyMap, hash |-> None]

\* W::load on the context derived for the entry short_key
load_subview(st, short_key) == RegLoad(st, get_subview_key(short_key))

\* a load_entry_mut that drops the pending updates of the other keys
do_load_entry_mut_alone(st, dsf, ups, short_key) ==
    LET view == load_subview(st, short_key)
    IN MapPut(EmptyMap, short_key, SetOf(IF dsf THEN RegClear(view) ELSE view))

\* a load_entry_mut that hands out the stored sub-view of a Removed entry
do_load_entry_mut_unmasked(st, dsf, ups, short_key) ==
    IF short_key \in DOMAIN ups
    THEN IF IsSet(ups[short_key])
         THEN ups
         ELSE MapPut(ups, short_key, SetOf(load_subview(st, short_key)))
    ELSE LET view == load_subview(st, short_key)
         IN MapPut(ups, short_key, SetOf(IF dsf THEN RegClear(view) ELSE view))

do_load_entry_mut(st, dsf, ups, short_key) ==
    IF short_key \in DOMAIN ups
    THEN IF IsSet(ups[short_key])
         THEN ups
         ELSE MapPut(ups, short_key, SetOf(RegClear(load_subview(st, short_key))))
    ELSE LET view == load_subview(st, short_key)
         IN MapPut(ups, short_key, SetOf(IF dsf THEN RegClear(view) ELSE view))

\* a try_load_entry that reads the store of a cleared collection
try_load_entry_reads_store(st, dsf, ups, short_key) ==
    IF short_key \in DOMAIN ups
    THEN IF IsSet(ups[short_key])
         THEN [ret |-> Some(ups[short_key].view), updates |-> ups]
         ELSE [ret |-> None, updates |-> ups]
    ELSE IF store_contains_key(st, get_index_key(short_key))
         THEN LET view == load_subview(st, short_key)
              IN [ret |-> Some(view), updates |-> MapPut(ups, short_key, SetOf(view))]
         ELSE [ret |-> None, updates |-> ups]

\* the returned option (the sub-view behind the read guard) and the updates afterwards
try_load_entry(st, dsf, ups, short_key) ==
    IF short_key \in DOMAIN ups
    THEN IF IsSet(ups[short_key])
         THEN [ret |-> Some(ups[short_key].view), updates |-> ups]
         ELSE [ret |-> None, updates |-> ups]
    ELSE IF ~dsf /\ store_contains_key(st, get_index_key(short_key))
         THEN LET view == load_subview(st, short_key)
              IN [ret |-> Some(view), updates |-> MapPut(ups, short_key, SetOf(view))]
         ELSE [ret |-> None, updates |-> ups]

\* a contains_key that does not look at delete_storage_first
contains_key_reads_store(st, dsf, ups, short_key) ==
    IF short_key \in DOMAIN ups
    THEN IsSet(ups[short_key])
    ELSE store_contains_key(st, get_index_key(short_key))

\* a contains_key that looks for a removed entry in the store
contains_key_ignores_removed(st, dsf, ups, short_key) ==
    IF short_key \in DOMAIN ups /\ IsSet(ups[short_key])
    THEN TRUE
    ELSE ~dsf /\ store_contains_key(st, get_index_key(short_key))

contains_key(st, dsf, ups, short_key) ==
    IF short_key \in DOMAIN ups
    THEN IsSet(ups[short_key])
    ELSE ~dsf /\ store_contains_key(st, get_index_key(short_key))

\* a remove_entry that marks the key as Removed in a cleared collection too
remove_entry_always_marks(dsf, ups, short_key) == MapPut(ups, short_key, Removed)

remove_entry(dsf, ups, short_key) ==
    IF dsf THEN MapRemove(ups, short_key) ELSE MapPut(ups, short_key, Removed)

RECURSIVE for_each_key_keeps_stored(_, _, _)
\* a merge that does not advance the stored iterator past a key that is also
\* in the updates
for_each_key_keeps_stored(ups, stored, upd) ==
    IF stored = <<>>
    THEN IF upd = <<>>
         THEN <<>>
         ELSE (IF IsSet(ups[Head(upd)]) THEN <<Head(upd)>> ELSE <<>>)
              \o for_each_key_keeps_stored(ups, stored, Tail(upd))
    ELSE IF upd # <<>> /\ LexLeq(Head(upd), Head(stored))
         THEN (IF IsSet(ups[Head(upd)]) THEN <<Head(upd)>> ELSE <<>>)
              \o for_each_key_keeps_stored(ups, stored, Tail(upd))
         ELSE <<Head(stored)>> \o for_each_key_keeps_stored(ups, Tail(stored), upd)

RECURSIVE for_each_key_merge(_, _, _)
\* the keys for_each_key passes to f: stored is the rest of the stored index
\* iterator, upd the rest of the updates iterator
for_each_key_merge(ups, stored, upd) ==
    IF stored = <<>>
    THEN IF upd = <<>>
         THEN <<>>
         ELSE (IF IsSet(ups[Head(upd)]) THEN <<Head(upd)>> ELSE <<>>)
              \o for_each_key_merge(ups, stored, Tail(upd))
    ELSE IF upd # <<>> /\ LexLeq(Head(upd), Head(stored))
         THEN (IF IsSet(ups[Head(upd)]) THEN <<Head(upd)>> ELSE <<>>)
              \o for_each_key_merge(ups,
                                    IF Head(upd) = Head(stored) THEN Tail(stored) ELSE stored,
                                    Tail(upd))
         ELSE <<Head(stored)>> \o for_each_key_merge(ups, Tail(stored), upd)

keys(st, dsf, ups) ==
    for_each_key_merge(ups,
                       IF dsf THEN <<>> ELSE find_keys_by_prefix(st, get_index_key(<<>>)),
                       SortKeys(DOMAIN ups))

add_index(index) == <<Put(get_index_key(index), <<>>)>>

RECURSIVE flush_updates(_, _, _)
\* the loop of flush over the updates map, in key order
flush_updates(dsf, ups, order) ==
    IF order = <<>> THEN <<>>
    ELSE LET index == Head(order)
             ops == IF IsSet(ups[index])
                    THEN RegFlush(ups[index].view, get_subview_key(index)).ops \o add_index(index)
                    ELSE IF dsf THEN <<>>
                    ELSE <<Delete(get_index_key(index)), DeletePrefix(get_subview_key(index))>>
         IN ops \o flush_updates(dsf, ups, Tail(order))

\* a flush that deletes every key of the store when the collection was cleared
flush_deletes_all(dsf, ups, sh, h) ==
    LET sh1 == IF dsf THEN None ELSE sh
        body == (IF dsf THEN <<DeletePrefix(<<>>)>> ELSE <<>>)
                \o flush_updates(dsf, ups, SortKeys(DOMAIN ups))
        tail == IF sh1 # h
                THEN IF IsSome(h)
                     THEN <<Put(base_tag(BaseKey, KeyTagHash), h[1])>>
                     ELSE <<Delete(base_tag(BaseKey, KeyTagHash))>>
                ELSE <<>>
    IN [batch |-> body \o tail, stored_hash |-> h]

\* a flush that writes the hash but does not record it as the stored hash
flush_keeps_stored_hash(dsf, ups, sh, h) ==
    LET sh1 == IF dsf THEN None ELSE sh
        body == (IF dsf THEN <<DeletePrefix(BaseKey)>> ELSE <<>>)
                \o flush_updates(dsf, ups, SortKeys(DOMAIN ups))
        tail == IF sh1 # h
                THEN IF IsSome(h)
                     THEN <<Put(base_tag(BaseKey, KeyTagHash), h[1])>>
                     ELSE <<Delete(base_tag(BaseKey, KeyTagHash))>>
                ELSE <<>>
    IN [batch |-> body \o tail, stored_hash |-> sh1]

\* a flush that does not delete the base prefix of a cleared collection
flush_keeps_prefix(dsf, ups, sh, h) ==
    LET sh1 == IF dsf THEN None ELSE sh
        body == flush_updates(dsf, ups, SortKeys(DOMAIN ups))
        tail == IF sh1 # h
                THEN IF IsSome(h)
                     THEN <<Put(base_tag(BaseKey, KeyTagHash), h[1])>>
                     ELSE <<Delete(base_tag(BaseKey, KeyTagHash))>>
                ELSE <<>>
    IN [batch |-> body \o tail, stored_hash |-> h]

\* a flush of a cleared collection that does not reset stored_hash before it
\* reconciles the hash
flush_without_reset(dsf, ups, sh, h) ==
    LET body == (IF dsf THEN <<DeletePrefix(BaseKey)>> ELSE <<>>)
                \o flush_updates(dsf, ups, SortKeys(DOMAIN ups))
        tail == IF sh # h
                THEN IF IsSome(h)
                     THEN <<Put(base_tag(BaseKey, KeyTagHash), h[1])>>
                     ELSE <<Delete(base_tag(BaseKey, KeyTagHash))>>
                ELSE <<>>
    IN [batch |-> body \o tail, stored_hash |-> h]

\* the operations flush appends to the batch and the stored hash afterwards
flush(dsf, ups, sh, h) ==
    LET sh1 == IF dsf THEN None ELSE sh
        body == (IF dsf THEN <<DeletePrefix(BaseKey)>> ELSE <<>>)
                \o flush_updates(dsf, ups, SortKeys(DOMAIN ups))
        tail == IF sh1 # h
                THEN IF IsSome(h)
                     THEN <<Put(base_tag(BaseKey, KeyTagHash), h[1])>>
                     ELSE <<Delete(base_tag(BaseKey, KeyTagHash))>>
                ELSE <<>>
    IN [batch |-> body \o tail, stored_hash |-> h]

compute_hash(st, dsf, ups) ==
    LET ks == keys(st, dsf, ups)
    IN [i \in 1..Len(ks) |->
          <<ks[i], IF ks[i] \in DOMAIN ups
                   THEN RegHash(ups[ks[i]].view)
                   ELSE RegHash(load_subview(st, ks[i]))>>]

\* the value a reader finds in the sub-view of a live entry
entry_value(st, ups, short_key) ==
    IF short_key \in DOMAIN ups /\ IsSet(ups[short_key])
    THEN RegGet(ups[short_key].view)
    ELSE RegGet(load_subview(st, short_key))

\* keys() and the value of every entry, as the view shows them
observe(st, dsf, ups) ==
    LET ks == keys(st, dsf, ups)
    IN [keys |-> ks, vals |-> [k \in Range(ks) |-> entry_value(st, ups, k)]]

\* the view fields and the store, recorded when flush is entered
before_flush(st, dsf, ups) ==
    [store |-> st, delete_storage_first |-> dsf, updates |-> ups]

(***************************************************************************)
(* ByteCollectionView actions                                              *)
(***************************************************************************)
NoKey == <<>>

Did(name, key, ret) == [op |-> name, key |-> key, ret |-> ret]

CollInit ==
    /\ store = EmptyMap
    /\ delete_storage_first = FALSE
    /\ updates = EmptyMap
    /\ stored_hash = None
    /\ hash = None
    /\ batch = <<>>
    /\ sync = [unwritten |-> FALSE, stale |-> FALSE]
    /\ last = Did("load", NoKey, None)
    /\ snap = before_flush(EmptyMap, FALSE, EmptyMap)
    /\ clean = observe(EmptyMap, FALSE, EmptyMap)
    /\ nops = 0

\* the stores in which a collection was saved: none yet, or one entry that was set
SavedStores ==
    {EmptyMap} \cup
        {write_batch(EmptyMap,
                     flush(FALSE,
                           [do_load_entry_mut(EmptyMap, FALSE, EmptyMap, k)
                               EXCEPT ![k] = SetOf(RegSet(@.view, v))],
                           None, None).batch) :
            k \in ShortKeys, v \in 1..MaxVal}

\* View::load on a context whose store a collection was saved in
CollLoaded ==
    /\ store \in SavedStores
    /\ delete_storage_first = load(store).delete_storage_first
    /\ updates = load(store).updates
    /\ stored_hash = load(store).stored_hash
    /\ hash = load(store).hash
    /\ batch = <<>>
    /\ sync = [unwritten |-> FALSE, stale |-> FALSE]
    /\ last = Did("load", NoKey, None)
    /\ snap = before_flush(store, FALSE, EmptyMap)
    /\ clean = observe(store, FALSE, EmptyMap)
    /\ nops = 0

\* one more operation on the collection; the matching engine is not involved
Count == nops < MaxOps /\ nops' = nops + 1 /\ UNCHANGED <<meVars, lockVars, serialized, suspended>>

\* an operation on the view while the batch of a flush is unwritten works on a
\* store that is behind the view, and what it leaves may reach the store
used(s) == [s EXCEPT !.stale = s.stale \/ s.unwritten]

\* one more operation on the view
Step == Count /\ sync' = used(sync)

\* View::load on the same context again
Load ==
    /\ Step
    /\ delete_storage_first' = load(store).delete_storage_first
    /\ updates' = load(store).updates
    /\ stored_hash' = load(store).stored_hash
    /\ hash' = load(store).hash
    /\ last' = Did("load", NoKey, None)
    /\ clean' = observe(store, FALSE, EmptyMap)
    /\ UNCHANGED <<store, batch, snap>>

\* rollback; last.ret records the flag and the keys of the updates it discards
Rollback ==
    /\ Step
    /\ delete_storage_first' = rollback(stored_hash).delete_storage_first
    /\ updates' = rollback(stored_hash).updates
    /\ hash' = rollback(stored_hash).hash
    /\ last' = Did("rollback", NoKey,
                    Some([delete_storage_first |-> delete_storage_first,
                          pending |-> DOMAIN updates]))
    /\ UNCHANGED <<store, stored_hash, batch, snap, clean>>

\* flush(&mut batch): the operations are appended to the batch of the caller,
\* a new one when the last one was written; the store is not touched
Flush ==
    /\ Count
    /\ sync' = [unwritten |-> TRUE, stale |-> sync.stale \/ sync.unwritten]
    /\ LET f == flush(delete_storage_first, updates, stored_hash, hash)
       IN /\ batch' = IF sync.unwritten THEN batch \o f.batch ELSE f.batch
          /\ stored_hash' = f.stored_hash
    /\ snap' = before_flush(store, delete_storage_first, updates)
    /\ updates' = EmptyMap
    /\ delete_storage_first' = FALSE
    /\ last' = Did("flush", NoKey, None)
    /\ clean' = observe(store, FALSE, EmptyMap)
    /\ UNCHANGED <<store, hash>>

\* context.write_batch(batch): the caller writes the batch to the store
WriteBatch ==
    /\ sync.unwritten
    /\ sync' = [sync EXCEPT !.unwritten = FALSE]
    /\ store' = write_batch(store, batch)
    /\ last' = Did("write_batch", NoKey, None)
    /\ clean' = observe(store', FALSE, EmptyMap)
    /\ UNCHANGED <<delete_storage_first, updates, stored_hash, hash, batch, snap, nops>>
    /\ UNCHANGED <<meVars, lockVars, serialized, suspended>>

Clear ==
    /\ Step
    /\ delete_storage_first' = clear.delete_storage_first
    /\ updates' = clear.updates
    /\ hash' = clear.hash
    /\ last' = Did("clear", NoKey, None)
    /\ UNCHANGED <<store, stored_hash, batch, snap, clean>>

\* load_entry_or_insert: the caller gets a shared reference
LoadEntryOrInsert(short_key) ==
    /\ Step
    /\ hash' = None
    /\ updates' = do_load_entry_mut(store, delete_storage_first, updates, short_key)
    /\ last' = Did("load_entry_or_insert", short_key, Some(RegGet(updates'[short_key].view)))
    /\ UNCHANGED <<store, delete_storage_first, stored_hash, batch, snap, clean>>

\* load_entry_mut, and the caller sets the register behind the reference to v
LoadEntryMut(short_key, v) ==
    /\ Step
    /\ hash' = None
    /\ LET ups == do_load_entry_mut(store, delete_storage_first, updates, short_key)
       IN updates' = [ups EXCEPT ![short_key] = SetOf(RegSet(ups[short_key].view, v))]
    /\ last' = Did("load_entry_mut", short_key, Some(v))
    /\ UNCHANGED <<store, delete_storage_first, stored_hash, batch, snap, clean>>

ResetEntryToDefault(short_key) ==
    /\ Step
    /\ hash' = None
    /\ LET ups == do_load_entry_mut(store, delete_storage_first, updates, short_key)
       IN updates' = [ups EXCEPT ![short_key] = SetOf(RegClear(ups[short_key].view))]
    /\ last' = Did("reset_entry_to_default", short_key, None)
    /\ UNCHANGED <<store, delete_storage_first, stored_hash, batch, snap, clean>>

RemoveEntry(short_key) ==
    /\ Step
    /\ hash' = None
    /\ updates' = remove_entry(delete_storage_first, updates, short_key)
    /\ last' = Did("remove_entry", short_key, None)
    /\ UNCHANGED <<store, delete_storage_first, stored_hash, batch, snap, clean>>

\* try_load_entry; the read guard is dropped before the next operation
TryLoadEntry(short_key) ==
    /\ Step
    /\ LET r == try_load_entry(store, delete_storage_first, updates, short_key)
       IN /\ updates' = r.updates
          /\ last' = Did("try_load_entry", short_key, r.ret)
    /\ UNCHANGED <<store, delete_storage_first, stored_hash, hash, batch, snap, clean>>

\* hash and hash_mut: the cached hash is returned, or computed and cached
Hash ==
    /\ Step
    /\ hash' = IF IsSome(hash) THEN hash
               ELSE Some(compute_hash(store, delete_storage_first, updates))
    /\ last' = Did("hash", NoKey, hash')
    /\ UNCHANGED <<store, delete_storage_first, updates, stored_hash, batch, snap, clean>>

\* the operations on the view
ViewNext ==
    \/ Load
    \/ Rollback
    \/ Flush
    \/ Clear
    \/ Hash
    \/ \E k \in ShortKeys : LoadEntryOrInsert(k)
    \/ \E k \in ShortKeys, v \in 1..MaxVal : LoadEntryMut(k, v)
    \/ \E k \in ShortKeys : ResetEntryToDefault(k)
    \/ \E k \in ShortKeys : RemoveEntry(k)
    \/ \E k \in ShortKeys : TryLoadEntry(k)

\* the operations on the view, and the write of the batch by its owner
Next == ViewNext \/ WriteBatch

(***************************************************************************)
(* Suspension points: the awaits on the store                               *)
(***************************************************************************)
\* the fields of ByteCollectionView that live in memory
InMemory == [delete_storage_first |-> delete_storage_first, updates |-> updates,
             stored_hash |-> stored_hash, hash |-> hash]

\* the calls that may await the store
AwaitCalls ==
    {Did("load_entry_mut", k, Some(v)) : k \in ShortKeys, v \in 1..MaxVal}
        \cup {Did(name, k, None) :
                 name \in {"load_entry_or_insert", "reset_entry_to_default",
                           "try_load_entry", "contains_key"},
                 k \in ShortKeys}
        \cup {Did("keys", NoKey, None), Did("hash", NoKey, None)}

\* the calls that go through do_load_entry_mut
LoadsEntryMut == {"load_entry_mut", "load_entry_or_insert", "reset_entry_to_default"}

\* whether the call gets to an await on the store: W::load in do_load_entry_mut
\* for a key that is not Set, context.contains_key in try_load_entry and
\* contains_key for a key without update, find_keys_by_prefix in keys, and
\* the keys() of compute_hash when no hash is cached
reaches_store(call, dsf, ups, cached) ==
    IF call.op \in LoadsEntryMut
    THEN ~(call.key \in DOMAIN ups /\ IsSet(ups[call.key]))
    ELSE IF call.op \in {"try_load_entry", "contains_key"}
    THEN call.key \notin DOMAIN ups /\ ~dsf
    ELSE IF call.op = "keys" THEN ~dsf
    ELSE ~IsSome(cached) /\ ~dsf

\* the cached hash when the call is at its await: do_load_entry_mut has set it
\* to None, the other calls have not written anything
hash_at_await(call, cached) ==
    IF call.op \in LoadsEntryMut THEN None ELSE cached

\* the request to the store at which the call is suspended first
first_await(call) ==
    IF call.op \in LoadsEntryMut THEN "load"
    ELSE IF call.op \in {"try_load_entry", "contains_key"} THEN "contains_key"
    ELSE "find_keys_by_prefix"

\* the call at its first await: the in-memory state it was called in, the
\* request it awaits, and for hash the keys and the entries hashed so far
at_first_await(call, before) ==
    [call |-> call, before |-> before, at |-> first_await(call), keys |-> <<>>,
     hashed |-> <<>>]

RECURSIVE hash_entries(_, _, _)
\* the loop of compute_hash from the entry after those hashed, up to the next
\* key that has no update and is loaded from the store, or to the end
hash_entries(ups, ks, hashed) ==
    IF Len(hashed) = Len(ks) THEN hashed
    ELSE LET key == ks[Len(hashed) + 1]
         IN IF key \in DOMAIN ups
            THEN hash_entries(ups, ks, Append(hashed, <<key, RegHash(ups[key].view)>>))
            ELSE hashed

\* compute_hash of the suspended hash() after the store has answered: the keys
\* of keys(), or the hash of the sub-view that was loaded, and the entries
\* hashed up to the next await
hash_progress(s, st, dsf, ups) ==
    IF s.at = "find_keys_by_prefix"
    THEN [keys |-> keys(st, dsf, ups), hashed |-> hash_entries(ups, keys(st, dsf, ups), <<>>)]
    ELSE LET key == s.keys[Len(s.hashed) + 1]
         IN [keys |-> s.keys,
             hashed |-> hash_entries(ups, s.keys,
                                     Append(s.hashed,
                                            <<key, RegHash(load_subview(st, key))>>))]

\* whether the call awaits the store again after this answer: try_load_entry
\* loads the sub-view of a key the store contains, compute_hash loads the
\* sub-view of the next key that has no update
awaits_again(s, st, dsf, ups) ==
    IF s.call.op = "try_load_entry"
    THEN s.at = "contains_key" /\ store_contains_key(st, get_index_key(s.call.key))
    ELSE IF s.call.op = "hash"
    THEN Len(hash_progress(s, st, dsf, ups).hashed) < Len(hash_progress(s, st, dsf, ups).keys)
    ELSE FALSE

\* the call at its next await
next_await(s, st, dsf, ups) ==
    IF s.call.op = "try_load_entry" THEN [s EXCEPT !.at = "load"]
    ELSE [s EXCEPT !.at = "load",
                   !.keys = hash_progress(s, st, dsf, ups).keys,
                   !.hashed = hash_progress(s, st, dsf, ups).hashed]

\* the rest of the call after the answer to its last request: the updates, the
\* cached hash and what the call returns
returned(s, st, dsf, ups, cached) ==
    LET call == s.call
        loaded == do_load_entry_mut(st, dsf, ups, call.key)
    IN IF call.op = "load_entry_mut"
       THEN [updates |-> [loaded EXCEPT ![call.key] =
                              SetOf(RegSet(loaded[call.key].view, call.ret[1]))],
             hash |-> cached, value |-> call.ret]
       ELSE IF call.op = "load_entry_or_insert"
       THEN [updates |-> loaded, hash |-> cached,
             value |-> Some(RegGet(loaded[call.key].view))]
       ELSE IF call.op = "reset_entry_to_default"
       THEN [updates |-> [loaded EXCEPT ![call.key] = SetOf(RegClear(loaded[call.key].view))],
             hash |-> cached, value |-> None]
       ELSE IF call.op = "try_load_entry"
       THEN IF s.at = "load"
            THEN [updates |-> MapPut(ups, call.key, SetOf(load_subview(st, call.key))),
                  hash |-> cached, value |-> Some(load_subview(st, call.key))]
            ELSE [updates |-> ups, hash |-> cached, value |-> None]
       ELSE IF call.op = "contains_key"
       THEN [updates |-> ups, hash |-> cached,
             value |-> store_contains_key(st, get_index_key(call.key))]
       ELSE IF call.op = "keys"
       THEN [updates |-> ups, hash |-> cached, value |-> keys(st, dsf, ups)]
       ELSE [updates |-> ups, hash |-> Some(hash_progress(s, st, dsf, ups).hashed),
             value |-> hash_progress(s, st, dsf, ups).hashed]

\* the store answers and the suspended call goes on to its next await
AnotherAwait ==
    /\ suspended # None
    /\ awaits_again(suspended[1], store, delete_storage_first, updates)
    /\ suspended' = Some(next_await(suspended[1], store, delete_storage_first, updates))
    /\ sync' = used(sync)
    /\ UNCHANGED <<store, delete_storage_first, updates, stored_hash, hash, batch, last,
                   snap, clean, nops>>
    /\ UNCHANGED <<meVars, lockVars, serialized>>

(***************************************************************************)
(* The lock of the updates map: read guards, calls that hold the lock      *)
(* across an await on the store, and waiting calls                         *)
(***************************************************************************)
Ok(value) == <<"Ok", value>>

Err(error) == <<"Err", error>>

LockInit == guard = None /\ waiting = None

\* who holds the lock of updates: the live ReadGuardedView (a read guard), and
\* the call that took the lock and is at its await on the store
Holders(read_guard, at_await) ==
    (IF read_guard = None THEN {} ELSE {"guard"})
        \cup (IF at_await = None THEN {} ELSE {"call"})

\* a try_write that succeeds next to a reader
try_write_shared(held) == TRUE

\* updates.try_write(): the write lock is free when nobody holds the lock
try_write(held) == held = {}

\* updates.write().await returns only when nobody holds the lock
write_acquired(held) == held = {}

\* updates.read().await returns next to other readers, not next to a call that
\* took the write lock
read_acquired(held) == "call" \notin held

\* the operations of the collection while no guard is live, no call waits and
\* no call is at an await; those that take &mut self cannot be called otherwise
Mutate ==
    guard = None /\ waiting = None /\ suspended = None /\ nops < MaxLockOps /\ ViewNext

\* the ReadGuardedView goes out of scope
DropGuard ==
    /\ guard # None
    /\ guard' = None
    /\ UNCHANGED <<collVars, meVars, waiting, serialized, suspended>>

\* the calls that take &self: contains_key, keys (for_each_key_while) and hash
ReadCalls ==
    {Did("contains_key", k, None) : k \in ShortKeys}
        \cup {Did("keys", NoKey, None), Did("hash", NoKey, None)}

\* contains_key and for_each_key_while take updates.write(); hash returns the
\* cached hash or calls compute_hash, which calls keys() before updates.read()
lock_acquired(call, held, cached) ==
    IF call.op = "hash" /\ IsSome(cached) THEN TRUE
    ELSE IF call.op = "hash" THEN write_acquired(held) /\ read_acquired(held)
    ELSE write_acquired(held)

\* the call returns, which makes it one more operation of the run; the write
\* guard of try_load_entry is downgraded to the read guard of the view it returns
Complete(call) ==
    /\ nops' = nops + 1
    /\ sync' = used(sync)
    /\ updates' = IF call.op = "try_load_entry"
                  THEN try_load_entry(store, delete_storage_first, updates, call.key).updates
                  ELSE updates
    /\ guard' = IF /\ call.op = "try_load_entry"
                   /\ IsSome(try_load_entry(store, delete_storage_first, updates,
                                            call.key).ret)
                THEN Some(call.key)
                ELSE guard
    /\ hash' = IF call.op = "hash" /\ ~IsSome(hash)
               THEN Some(compute_hash(store, delete_storage_first, updates))
               ELSE hash
    /\ last' = Did(call.op, call.key,
                   IF call.op = "try_load_entry"
                   THEN Ok(try_load_entry(store, delete_storage_first, updates,
                                          call.key).ret)
                   ELSE IF call.op = "contains_key"
                   THEN Ok(contains_key(store, delete_storage_first, updates, call.key))
                   ELSE IF call.op = "keys"
                   THEN Ok(keys(store, delete_storage_first, updates))
                   ELSE Ok(hash'[1]))
    /\ UNCHANGED <<store, delete_storage_first, stored_hash, batch, snap, clean>>
    /\ UNCHANGED <<meVars, serialized>>

\* the call has taken the lock and is at its await on the store, the lock held
AtAwait(call) ==
    /\ suspended' = Some(at_first_await(call, InMemory))
    /\ sync' = used(sync)
    /\ UNCHANGED <<store, delete_storage_first, updates, stored_hash, hash, batch, last,
                   snap, clean, nops>>
    /\ UNCHANGED <<guard, meVars, serialized>>

\* the call has the lock: it awaits the store if it has to, else it returns
Proceed(call) ==
    IF reaches_store(call, delete_storage_first, updates, hash)
    THEN AtAwait(call)
    ELSE Complete(call) /\ UNCHANGED suspended

\* try_load_entry, and the caller keeps the ReadGuardedView it gets
TryLoadEntryKeep(short_key) ==
    /\ waiting = None
    /\ nops < MaxLockOps
    /\ IF try_write(Holders(guard, suspended))
       THEN Proceed(Did("try_load_entry", short_key, None))
       ELSE /\ nops' = nops + 1
            /\ last' = Did("try_load_entry", short_key, Err("CannotAcquireCollectionEntry"))
            /\ UNCHANGED <<store, delete_storage_first, updates, stored_hash, hash, batch,
                           sync, snap, clean>>
            /\ UNCHANGED <<guard, suspended, meVars, serialized>>
    /\ UNCHANGED waiting

\* a call of a read operation: it takes the lock, or it waits for the lock
Read(call) ==
    /\ waiting = None
    /\ nops < MaxLockOps
    /\ IF lock_acquired(call, Holders(guard, suspended), hash)
       THEN Proceed(call) /\ UNCHANGED waiting
       ELSE /\ waiting' = Some(call)
            /\ UNCHANGED <<collVars, guard, suspended, meVars, serialized>>

\* the waiting call gets the lock
Resume ==
    /\ waiting # None
    /\ lock_acquired(waiting[1], Holders(guard, suspended), hash)
    /\ waiting' = None
    /\ Proceed(waiting[1])

\* the store answers the last request of the call that is at its await: the
\* call returns and gives the lock back, or downgrades it to the read guard of
\* the view it returns
Answered ==
    /\ suspended # None
    /\ ~awaits_again(suspended[1], store, delete_storage_first, updates)
    /\ suspended' = None
    /\ nops' = nops + 1
    /\ sync' = used(sync)
    /\ LET call == suspended[1].call
           r == returned(suspended[1], store, delete_storage_first, updates, hash)
       IN /\ updates' = r.updates
          /\ hash' = r.hash
          /\ guard' = IF call.op = "try_load_entry" /\ IsSome(r.value)
                      THEN Some(call.key)
                      ELSE guard
          /\ last' = Did(call.op, call.key, Ok(r.value))
    /\ UNCHANGED <<store, delete_storage_first, stored_hash, batch, snap, clean>>
    /\ UNCHANGED <<waiting, meVars, serialized>>

LockNext ==
    \/ Mutate
    \/ WriteBatch
    \/ DropGuard
    \/ Resume
    \/ AnotherAwait
    \/ Answered
    \/ \E k \in ShortKeys : TryLoadEntryKeep(k)
    \/ \E call \in ReadCalls : Read(call)

(***************************************************************************)
(* Calls that are suspended at their await and may be cancelled            *)
(***************************************************************************)
\* the operations of the collection that run to completion
Completed == suspended = None /\ nops < MaxAwaitOps /\ ViewNext

\* a call runs up to its first await on the store and is suspended there
Suspend(call) ==
    /\ suspended = None
    /\ nops < MaxAwaitOps
    /\ reaches_store(call, delete_storage_first, updates, hash)
    /\ suspended' = Some(at_first_await(call, InMemory))
    /\ hash' = hash_at_await(call, hash)
    /\ sync' = used(sync)
    /\ UNCHANGED <<store, delete_storage_first, updates, stored_hash, batch, last, snap,
                   clean, nops>>
    /\ UNCHANGED <<meVars, lockVars, serialized>>

\* the store answers the last request of the suspended call, which runs to its
\* end; the read guard of try_load_entry is dropped at once
Finish ==
    /\ suspended # None
    /\ ~awaits_again(suspended[1], store, delete_storage_first, updates)
    /\ suspended' = None
    /\ nops' = nops + 1
    /\ sync' = used(sync)
    /\ LET call == suspended[1].call
           r == returned(suspended[1], store, delete_storage_first, updates, hash)
       IN /\ updates' = r.updates
          /\ hash' = r.hash
          /\ last' = Did(call.op, call.key,
                         IF call.op \in {"contains_key", "keys", "hash"}
                         THEN Some(r.value)
                         ELSE r.value)
    /\ UNCHANGED <<store, delete_storage_first, stored_hash, batch, snap, clean>>
    /\ UNCHANGED <<meVars, lockVars, serialized>>

\* the future of the suspended call is dropped: nothing more of it runs
CancelSuspended ==
    /\ suspended # None
    /\ suspended' = None
    /\ last' = Did("cancelled", suspended[1].call.key, Some(suspended[1].call.op))
    /\ UNCHANGED <<store, delete_storage_first, updates, stored_hash, hash, batch, sync,
                   snap, clean, nops>>
    /\ UNCHANGED <<meVars, lockVars, serialized>>

AwaitNext ==
    \/ Completed
    \/ WriteBatch
    \/ AnotherAwait
    \/ Finish
    \/ CancelSuspended
    \/ \E call \in AwaitCalls : Suspend(call)

(***************************************************************************)
(* Matching engine: prices and their custom serialization (lib.rs)         *)
(***************************************************************************)
RECURSIVE bcs_to_bytes_u64(_, _)
\* bcs::to_bytes of a u64: n little-endian bytes
bcs_to_bytes_u64(x, n) ==
    IF n = 0 THEN <<>> ELSE <<x % 256>> \o bcs_to_bytes_u64(x \div 256, n - 1)

RECURSIVE bcs_from_bytes_u64(_)
bcs_from_bytes_u64(bytes) ==
    IF bytes = <<>> THEN 0 ELSE Head(bytes) + 256 * bcs_from_bytes_u64(Tail(bytes))

Reverse(s) == [i \in 1..Len(s) |-> s[Len(s) + 1 - i]]

\* a PriceBid key that is the price itself, not u64::MAX - price
u64_max_minus_nothing(bytes) == bytes

\* u64::MAX - x on the bytes of x: every byte b becomes 255 - b
u64_max_minus(bytes) == [i \in 1..Len(bytes) |-> 255 - bytes[i]]

ask_to_custom_bytes(price) == Reverse(bcs_to_bytes_u64(price, 8))

\* a from_custom_bytes that reads the price as a u16
ask_from_custom_bytes_u16(short_key) == bcs_from_bytes_u64(Reverse(short_key)) % 65536

ask_from_custom_bytes(short_key) == bcs_from_bytes_u64(Reverse(short_key))

bid_to_custom_bytes(price) == Reverse(u64_max_minus(bcs_to_bytes_u64(price, 8)))

bid_from_custom_bytes(short_key) == bcs_from_bytes_u64(u64_max_minus(Reverse(short_key)))

\* CustomCollectionView::indices of the asks: the levels in the order of their keys
ask_indices(book) ==
    LET short_keys == SortKeys({ask_to_custom_bytes(p) : p \in DOMAIN book})
    IN [i \in 1..Len(short_keys) |-> ask_from_custom_bytes(short_keys[i])]

\* indices of the bids with keys that are not complemented: lowest price first
bid_indices_ascending(book) ==
    LET short_keys == SortKeys({ask_to_custom_bytes(p) : p \in DOMAIN book})
    IN [i \in 1..Len(short_keys) |-> ask_from_custom_bytes(short_keys[i])]

bid_indices(book) ==
    LET short_keys == SortKeys({bid_to_custom_bytes(p) : p \in DOMAIN book})
    IN [i \in 1..Len(short_keys) |-> bid_from_custom_bytes(short_keys[i])]

\* the prices a run of the serialization starts from: around the boundaries of
\* the bytes of the encoding
PriceSamples ==
    {0, 1, 2, 255, 256, 257, 511, 512, 65535, 65536, 65537, 16777215, 16777216, 2147483647}

\* two prices, nothing serialized yet
Given(a, b) ==
    [a |-> a, b |-> b, stage |-> "given", ask |-> <<>>, bid |-> <<>>,
     ask_order |-> <<>>, bid_order |-> <<>>, ask_back |-> <<>>, bid_back |-> <<>>]

\* to_custom_bytes of both prices as PriceAsk and as PriceBid, and the indices
\* of an asks and a bids collection that hold a level at each of them
ToCustomBytes ==
    /\ serialized.stage = "given"
    /\ serialized' =
          [serialized EXCEPT
              !.stage = "serialized",
              !.ask = <<ask_to_custom_bytes(serialized.a), ask_to_custom_bytes(serialized.b)>>,
              !.bid = <<bid_to_custom_bytes(serialized.a), bid_to_custom_bytes(serialized.b)>>,
              !.ask_order = ask_indices([p \in {serialized.a, serialized.b} |-> <<>>]),
              !.bid_order = bid_indices([p \in {serialized.a, serialized.b} |-> <<>>])]
    /\ UNCHANGED <<collVars, meVars, lockVars, suspended>>

\* from_custom_bytes of the four serializations
FromCustomBytes ==
    /\ serialized.stage = "serialized"
    /\ serialized' =
          [serialized EXCEPT
              !.stage = "restored",
              !.ask_back = <<ask_from_custom_bytes(serialized.ask[1]),
                             ask_from_custom_bytes(serialized.ask[2])>>,
              !.bid_back = <<bid_from_custom_bytes(serialized.bid[1]),
                             bid_from_custom_bytes(serialized.bid[2])>>]
    /\ UNCHANGED <<collVars, meVars, lockVars, suspended>>

CodecNext == ToCustomBytes \/ FromCustomBytes

\* for_each_index_while with a callback that collects the indices it accepts:
\* the indices before the first one that is not in accepted
TakeWhile(indices, accepted) ==
    LET n == CHOOSE n \in 0..Len(indices) :
                 /\ \A i \in 1..n : indices[i] \in accepted
                 /\ n = Len(indices) \/ indices[n + 1] \notin accepted
    IN SubSeq(indices, 1, n)

\* Amount::try_mul: checked multiplication, None for Err(ArithmeticError::Overflow)
try_mul(amount, other) ==
    IF amount * other > AmountMAX THEN None ELSE Some(amount * other)

\* a panic of the contract inside an amount computation: a value outside the
\* range of Amount that stands for the amount that was never computed
Panicked == AmountMAX + 1

\* expect on the result of try_mul: the product, a panic when it overflows
product_price_amount(price, count) ==
    IF IsSome(try_mul(count, price)) THEN try_mul(count, price)[1] ELSE Panicked

(***************************************************************************)
(* Matching engine: the contract (contract.rs)                             *)
(***************************************************************************)
\* the addresses of the users that sign operations
Owners == {"alice", "bob"}

\* the applications that call the engine
ApplicationIds == {"amm"}

User(address) == <<"User", address>>

Application(id) == <<"Application", id>>

AccountOwners == {User(address) : address \in Owners} \cup {Application(id) : id \in ApplicationIds}

\* the chain the application was created on, where the engine runs, and another chain
CreationChain == "creation"

Chains == {CreationChain, "other"}

Natures == {"Bid", "Ask"}

Transfer(owner, amount, token_idx) == [owner |-> owner, amount |-> amount, token_idx |-> token_idx]

\* a check_account_authentication that accepts a user whenever there is a signer
check_account_authentication_any_signer(authenticated_application_id, authenticated_signer, owner) ==
    IF owner[1] = "User" /\ authenticated_signer # None THEN "ok"
    ELSE IF owner[1] = "Application" /\ authenticated_application_id = Some(owner[2]) THEN "ok"
    ELSE "IncorrectAuthentication"

check_account_authentication(authenticated_application_id, authenticated_signer, owner) ==
    IF owner[1] = "User" /\ authenticated_signer = Some(owner[2]) THEN "ok"
    ELSE IF owner[1] = "Application" /\ authenticated_application_id = Some(owner[2]) THEN "ok"
    ELSE "IncorrectAuthentication"

\* a get_amount_idx that takes the amount of a bid as its collateral
get_amount_idx_unpriced(nature, price, amount) ==
    IF nature = "Bid"
    THEN [amount |-> amount, token_idx |-> 0]
    ELSE [amount |-> amount, token_idx |-> 1]

get_amount_idx(nature, price, amount) ==
    IF nature = "Bid"
    THEN [amount |-> product_price_amount(price, amount), token_idx |-> 0]
    ELSE [amount |-> amount, token_idx |-> 1]

\* a get_transfers that pays the seller of an incoming bid at the level price
get_transfers_level_price(nature, fill, owner, order_level, price_level, price_insert) ==
    IF nature = "Bid"
    THEN <<Transfer(owner, fill, 1),
           Transfer(order_level.owner, product_price_amount(price_level, fill), 0)>>
    ELSE <<Transfer(order_level.owner, fill, 1),
           Transfer(owner, product_price_amount(price_insert, fill), 0)>>
         \o (IF price_level # price_insert
             THEN <<Transfer(order_level.owner,
                             product_price_amount(price_level - price_insert, fill), 0)>>
             ELSE <<>>)

\* a get_transfers that leaves the price difference of an incoming ask unpaid
get_transfers_no_bonus(nature, fill, owner, order_level, price_level, price_insert) ==
    IF nature = "Bid"
    THEN <<Transfer(owner, fill, 1),
           Transfer(order_level.owner, product_price_amount(price_insert, fill), 0)>>
    ELSE <<Transfer(order_level.owner, fill, 1),
           Transfer(owner, product_price_amount(price_insert, fill), 0)>>

\* the assert!s on the two prices panic when they fail: no transfer is
\* computed then
get_transfers(nature, fill, owner, order_level, price_level, price_insert) ==
    IF nature = "Bid"
    THEN IF ~(price_insert >= price_level)
         THEN <<Transfer(owner, Panicked, 1)>>
         ELSE <<Transfer(owner, fill, 1),
                Transfer(order_level.owner, product_price_amount(price_insert, fill), 0)>>
    ELSE IF ~(price_insert <= price_level)
         THEN <<Transfer(order_level.owner, Panicked, 1)>>
         ELSE <<Transfer(order_level.owner, fill, 1),
                Transfer(owner, product_price_amount(price_insert, fill), 0)>>
              \o (IF price_level # price_insert
                  THEN <<Transfer(order_level.owner,
                                  product_price_amount(price_level - price_insert, fill), 0)>>
                  ELSE <<>>)

\* a sweep that deletes every zero-amount order of the queue
remove_zero_orders_everywhere(queue) == SelectSeq(queue, LAMBDA order : order.amount # 0)

RECURSIVE remove_zero_orders_from_level(_)
remove_zero_orders_from_level(queue) ==
    IF queue # <<>> /\ Head(queue).amount = 0
    THEN remove_zero_orders_from_level(Tail(queue))
    ELSE queue

\* one iteration of the loop of level_clearing, on the i-th order of the queue;
\* r carries the queue, the rest of the amount, the transfers, the orders to
\* remove and the fills so far (for every fill > 0: the resting owner and
\* order id, the fill, the level price)
level_clearing_step(r, i, owner, nature, price_level, price_insert) ==
    LET fill == MinInt(r.queue[i].amount, r.amount)
        order == [r.queue[i] EXCEPT !.amount = @ - fill]
    IN [queue |-> [r.queue EXCEPT ![i] = order],
        amount |-> r.amount - fill,
        transfers |-> r.transfers \o
            (IF fill > 0
             THEN get_transfers(nature, fill, owner, order, price_level, price_insert)
             ELSE <<>>),
        remove_order |-> r.remove_order \o
            (IF order.amount = 0
             THEN <<[owner |-> order.owner, order_id |-> order.order_id]>>
             ELSE <<>>),
        fills |-> r.fills \o
            (IF fill > 0
             THEN <<[owner |-> order.owner, order_id |-> order.order_id, fill |-> fill,
                     price_level |-> price_level]>>
             ELSE <<>>)]

RECURSIVE level_clearing_loop(_, _, _, _, _, _)
\* the loop of level_clearing from the i-th order of the queue on; it breaks
\* when the amount is exhausted
level_clearing_loop(r, i, owner, nature, price_level, price_insert) ==
    IF i > Len(r.queue)
    THEN r
    ELSE LET continue(r1) ==
                 IF r1.amount = 0
                 THEN r1
                 ELSE level_clearing_loop(r1, i + 1, owner, nature, price_level, price_insert)
         IN continue(level_clearing_step(r, i, owner, nature, price_level, price_insert))

level_clearing(queue, owner, amount, nature, price_level, price_insert) ==
    [level_clearing_loop([queue |-> queue, amount |-> amount, transfers |-> <<>>,
                          remove_order |-> <<>>, fills |-> <<>>],
                         1, owner, nature, price_level, price_insert)
        EXCEPT !.queue = remove_zero_orders_from_level(@)]

\* the position of the first order with this id in the queue, 0 if there is none
find_order(queue, order_id) ==
    IF \E i \in 1..Len(queue) : queue[i].order_id = order_id
    THEN CHOOSE i \in 1..Len(queue) :
            /\ queue[i].order_id = order_id
            /\ \A j \in 1..(i - 1) : queue[j].order_id # order_id
    ELSE 0

\* a modify_order_level that adds the amount to the order
modify_order_level_grows(queue, order_id, cancel_amount) ==
    LET modify(i) ==
            IF i = 0
            THEN [err |-> "OrderNotPresent", queue |-> queue, cancel_amount |-> 0,
                  removed |-> FALSE]
            ELSE IF IsSome(cancel_amount) /\ cancel_amount[1] > queue[i].amount
            THEN [err |-> "TooLargeModifyOrder", queue |-> queue, cancel_amount |-> 0,
                  removed |-> FALSE]
            ELSE LET new_amount == IF IsSome(cancel_amount)
                                   THEN queue[i].amount + cancel_amount[1]
                                   ELSE 0
                 IN [err |-> "ok",
                     queue |-> remove_zero_orders_from_level(
                                   [queue EXCEPT ![i] = [@ EXCEPT !.amount = new_amount]]),
                     cancel_amount |-> IF IsSome(cancel_amount) THEN cancel_amount[1]
                                       ELSE queue[i].amount,
                     removed |-> new_amount = 0]
    IN modify(find_order(queue, order_id))

\* a modify_order_level that returns the new amount as the cancelled amount
modify_order_level_new_amount(queue, order_id, cancel_amount) ==
    LET modify(i) ==
            IF i = 0
            THEN [err |-> "OrderNotPresent", queue |-> queue, cancel_amount |-> 0,
                  removed |-> FALSE]
            ELSE IF IsSome(cancel_amount) /\ cancel_amount[1] > queue[i].amount
            THEN [err |-> "TooLargeModifyOrder", queue |-> queue, cancel_amount |-> 0,
                  removed |-> FALSE]
            ELSE LET new_amount == IF IsSome(cancel_amount)
                                   THEN queue[i].amount - cancel_amount[1]
                                   ELSE 0
                 IN [err |-> "ok",
                     queue |-> remove_zero_orders_from_level(
                                   [queue EXCEPT ![i] = [@ EXCEPT !.amount = new_amount]]),
                     cancel_amount |-> new_amount,
                     removed |-> new_amount = 0]
    IN modify(find_order(queue, order_id))

\* cancel_amount is None for ModifyAmount::All and Some(c) for Partial(c)
modify_order_level(queue, order_id, cancel_amount) ==
    LET modify(i) ==
            IF i = 0
            THEN [err |-> "OrderNotPresent", queue |-> queue, cancel_amount |-> 0,
                  removed |-> FALSE]
            ELSE IF IsSome(cancel_amount) /\ cancel_amount[1] > queue[i].amount
            THEN [err |-> "TooLargeModifyOrder", queue |-> queue, cancel_amount |-> 0,
                  removed |-> FALSE]
            ELSE LET new_amount == IF IsSome(cancel_amount)
                                   THEN queue[i].amount - cancel_amount[1]
                                   ELSE 0
                 IN [err |-> "ok",
                     queue |-> remove_zero_orders_from_level(
                                   [queue EXCEPT ![i] = [@ EXCEPT !.amount = new_amount]]),
                     cancel_amount |-> queue[i].amount - new_amount,
                     removed |-> new_amount = 0]
    IN modify(find_order(queue, order_id))

\* a remove_order_id that leaves the order id with its owner
remove_order_id_kept(st, entry) ==
    IF entry.owner \notin DOMAIN st.account_info
    THEN [st EXCEPT !.panic = TRUE]
    ELSE st

\* remove_order_id: the order id leaves the orders of the owner in account_info
\* (unwrap panics when the owner has no account_info)
remove_order_id(st, entry) ==
    IF entry.owner \notin DOMAIN st.account_info
    THEN [st EXCEPT !.panic = TRUE]
    ELSE [st EXCEPT !.account_info[entry.owner] = @ \ {entry.order_id}]

RECURSIVE remove_order_ids(_, _)
remove_order_ids(st, entries) ==
    IF entries = <<>> THEN st
    ELSE remove_order_ids(remove_order_id(st, Head(entries)), Tail(entries))

\* an insert_order that records the order in orders only
insert_order_orders_only(st, owner, nature, order_id, price) ==
    [st EXCEPT
        !.orders = MapPut(@, order_id, [price |-> price, nature |-> nature, owner |-> owner])]

insert_order(st, owner, nature, order_id, price) ==
    [st EXCEPT
        !.account_info = MapPut(@, owner,
                                (IF owner \in DOMAIN @ THEN @[owner] ELSE {}) \cup {order_id}),
        !.orders = MapPut(@, order_id, [price |-> price, nature |-> nature, owner |-> owner])]

\* load_entry_mut on a side of the book: an absent level is created empty
load_level(book, price) == IF price \in DOMAIN book THEN book ELSE MapPut(book, price, <<>>)

Side(nature) == IF nature = "Bid" THEN "bids" ELSE "asks"

Opposite(nature) == IF nature = "Bid" THEN "asks" ELSE "bids"

\* one iteration of the loop of insert_and_uncross_market, on the level at
\* price_level of the opposite side; r carries the state, the rest of the
\* amount, the transfers and the fills so far
clear_level(r, price_level, owner, nature, price, side) ==
    LET cleared(book, c) ==
            [st |-> remove_order_ids(
                        [r.st EXCEPT ![side] = IF Len(c.queue) = 0
                                               THEN MapRemove(book, price_level)
                                               ELSE [book EXCEPT ![price_level] = c.queue]],
                        c.remove_order),
             final_amount |-> c.amount,
             transfers |-> r.transfers \o c.transfers,
             fills |-> r.fills \o c.fills]
    IN cleared(load_level(r.st[side], price_level),
               level_clearing(load_level(r.st[side], price_level)[price_level], owner,
                              r.final_amount, nature, price_level, price))

RECURSIVE clear_levels(_, _, _, _, _, _)
\* the loop of insert_and_uncross_market over the matching levels of the
\* opposite side; it breaks when the amount is exhausted
clear_levels(r, levels, owner, nature, price, side) ==
    IF levels = <<>> THEN r
    ELSE LET continue(r1) ==
                 IF r1.final_amount = 0 THEN r1
                 ELSE clear_levels(r1, Tail(levels), owner, nature, price, side)
         IN continue(clear_level(r, Head(levels), owner, nature, price, side))

\* a get_new_order_id that does not advance next_order_number
get_new_order_id_again(st) == st

get_new_order_id(st) == [st EXCEPT !.next_order_number = @ + 1]

\* a selection of the matching levels that misses the level at the price itself
matching_prices_strict(st, nature, price) ==
    IF nature = "Bid"
    THEN TakeWhile(ask_indices(st.asks), {price_ask \in DOMAIN st.asks : price_ask < price})
    ELSE TakeWhile(bid_indices(st.bids), {price_bid \in DOMAIN st.bids : price_bid > price})

\* a selection that takes every level of the opposite side
matching_prices_all(st, nature, price) ==
    IF nature = "Bid" THEN ask_indices(st.asks) ELSE bid_indices(st.bids)

\* the levels of the opposite side that the new order matches, best first
matching_prices(st, nature, price) ==
    IF nature = "Bid"
    THEN TakeWhile(ask_indices(st.asks), {price_ask \in DOMAIN st.asks : price_ask <= price})
    ELSE TakeWhile(bid_indices(st.bids), {price_bid \in DOMAIN st.bids : price_bid >= price})

insert_and_uncross_market(st, owner, amount, nature, price) ==
    LET order_id == st.next_order_number
        rest(r) ==
            IF r.final_amount # 0
            THEN LET book == load_level(r.st[Side(nature)], price)
                     order == [amount |-> r.final_amount, owner |-> owner,
                               order_id |-> order_id]
                 IN [r EXCEPT !.st = insert_order(
                                         [@ EXCEPT ![Side(nature)] =
                                              [book EXCEPT ![price] = Append(@, order)]],
                                         owner, nature, order_id, price)]
            ELSE r
    IN rest(clear_levels([st |-> get_new_order_id(st), final_amount |-> amount,
                          transfers |-> <<>>, fills |-> <<>>],
                         matching_prices(get_new_order_id(st), nature, price),
                         owner, nature, price, Opposite(nature)))

\* a check_order_id that does not compare the owner
check_order_id_any_owner(st, order_id, owner) ==
    IF order_id \notin DOMAIN st.orders THEN "OrderNotPresent"
    ELSE "ok"

check_order_id(st, order_id, owner) ==
    IF order_id \notin DOMAIN st.orders THEN "OrderNotPresent"
    ELSE IF st.orders[order_id].owner # owner THEN "WrongOwnerOfOrder"
    ELSE "ok"

\* modify_order: the error, the state and the refund transfer
modify_order(st, order_id, cancel_amount) ==
    IF order_id \notin DOMAIN st.orders
    THEN [err |-> "OrderNotPresent", st |-> st, transfers |-> <<>>]
    ELSE LET key_book == st.orders[order_id]
             side == Side(key_book.nature)
             book == load_level(st[side], key_book.price)
             modified(m) ==
                 IF m.err # "ok"
                 THEN [err |-> m.err,
                       st |-> [st EXCEPT ![side] = [book EXCEPT ![key_book.price] = m.queue]],
                       transfers |-> <<>>]
                 ELSE [err |-> "ok",
                       st |-> IF m.removed
                              THEN remove_order_id(
                                       [st EXCEPT ![side] =
                                            [book EXCEPT ![key_book.price] = m.queue]],
                                       [owner |-> key_book.owner, order_id |-> order_id])
                              ELSE [st EXCEPT ![side] =
                                        [book EXCEPT ![key_book.price] = m.queue]],
                       transfers |-> <<IF key_book.nature = "Bid"
                                       THEN Transfer(key_book.owner,
                                                     product_price_amount(key_book.price,
                                                                          m.cancel_amount), 0)
                                       ELSE Transfer(key_book.owner, m.cancel_amount, 1)>>]
         IN modified(modify_order_level(book[key_book.price], order_id, cancel_amount))

modify_order_check(st, order_id, cancel_amount, owner) ==
    IF check_order_id(st, order_id, owner) # "ok"
    THEN [err |-> check_order_id(st, order_id, owner), st |-> st, transfers |-> <<>>]
    ELSE modify_order(st, order_id, cancel_amount)

\* the computation of one of these amounts panicked
panics(amounts) == \E i \in 1..Len(amounts) : amounts[i].amount = Panicked

RECURSIVE send_all(_, _)
\* send_to for every transfer: the custody after the transfers; a transfer of
\* more than the engine holds is refused by the token application
send_all(balance, transfers) ==
    IF transfers = <<>> THEN [err |-> "ok", custody |-> balance]
    ELSE LET t == Head(transfers)
         IN IF balance[t.token_idx] < t.amount
            THEN [err |-> "InsufficientBalance", custody |-> balance]
            ELSE send_all([balance EXCEPT ![t.token_idx] = @ - t.amount], Tail(transfers))

\* receive_from_account: the collateral of the order moves to the engine
receive_from_account(balance, amount, nature, price) ==
    LET receive(a) == [balance EXCEPT ![a.token_idx] = @ + a.amount]
    IN receive(get_amount_idx(nature, price, amount))

\* execute_order_local: the error, the state, the custody and what was sent;
\* an Insert whose collateral overflows panics in receive_from_account, before
\* insert_and_uncross_market has touched a view
execute_order_local(st, balance, order) ==
    IF order.kind = "Insert"
    THEN IF panics(<<get_amount_idx(order.nature, order.price, order.amount)>>)
         THEN [err |-> "panic", st |-> st, custody |-> balance, transfers |-> <<>>,
               fills |-> <<>>]
         ELSE LET sent(r, s) ==
                      [err |-> IF r.st.panic \/ panics(r.transfers) THEN "panic" ELSE s.err,
                       st |-> r.st, custody |-> s.custody,
                       transfers |-> r.transfers, fills |-> r.fills]
                  inserted(r) ==
                      sent(r, send_all(receive_from_account(balance, order.amount,
                                                            order.nature, order.price),
                                       r.transfers))
              IN inserted(insert_and_uncross_market(st, order.owner, order.amount,
                                                    order.nature, order.price))
    ELSE LET sent(m, s) ==
                 [err |-> IF m.err # "ok" THEN m.err
                          ELSE IF m.st.panic \/ panics(m.transfers) THEN "panic" ELSE s.err,
                  st |-> m.st, custody |-> s.custody,
                  transfers |-> m.transfers, fills |-> <<>>]
             modified(m) == sent(m, send_all(balance, m.transfers))
         IN modified(modify_order_check(st, order.order_id,
                                        IF order.kind = "Cancel" THEN None
                                        ELSE Some(order.cancel_amount),
                                        order.owner))

\* the message that carries an order to the chain of the engine
Message(order) == [kind |-> "ExecuteOrder", order |-> order]

\* an account of the token application: an owner on a chain
Account(chain_id, owner) == [chain_id |-> chain_id, owner |-> owner]

\* an authenticated, untracked message to a chain
OutgoingMessage(destination, message) ==
    [destination |-> destination, authenticated |-> TRUE, is_tracked |-> FALSE,
     message |-> message]

\* execute_order_remote: the funds of an Insert move to the account of the
\* owner on the chain of the engine, and the order is sent there as a message
execute_order_remote(st, balance, order) ==
    LET sent(funds) ==
            IF panics(funds)
            THEN [err |-> "panic", st |-> st, custody |-> balance, transfers |-> <<>>,
                  fills |-> <<>>, funds |-> <<>>, messages |-> <<>>]
            ELSE [err |-> "ok", st |-> st, custody |-> balance, transfers |-> <<>>,
                  fills |-> <<>>, funds |-> funds,
                  messages |-> <<OutgoingMessage(CreationChain, Message(order))>>]
        moved(a) ==
            [owner |-> order.owner, amount |-> a.amount, token_idx |-> a.token_idx,
             destination |-> Account(CreationChain, order.owner)]
    IN sent(IF order.kind = "Insert"
            THEN <<moved(get_amount_idx(order.nature, order.price, order.amount))>>
            ELSE <<>>)

\* the outcome of an order that was not sent to another chain
local_outcome(r) ==
    [err |-> r.err, st |-> r.st, custody |-> r.custody, transfers |-> r.transfers,
     fills |-> r.fills, funds |-> <<>>, messages |-> <<>>]

\* the order is processed on the chain of the engine and sent to it from
\* another chain
execute_order(st, balance, chain_id, order) ==
    IF chain_id = CreationChain
    THEN local_outcome(execute_order_local(st, balance, order))
    ELSE execute_order_remote(st, balance, order)

rejected(st, balance, err) ==
    [err |-> err, st |-> st, custody |-> balance, transfers |-> <<>>, fills |-> <<>>,
     funds |-> <<>>, messages |-> <<>>]

\* execute_operation: an operation ExecuteOrder of a block
execute_operation(st, balance, chain_id, authenticated_signer, order) ==
    IF check_account_authentication(None, authenticated_signer, order.owner) # "ok"
    THEN rejected(st, balance, "IncorrectAuthentication")
    ELSE execute_order(st, balance, chain_id, order)

\* execute_message: a message ExecuteOrder that is delivered on the chain; it
\* is executed on the chain of the engine only
execute_message(st, balance, chain_id, authenticated_signer, order) ==
    IF chain_id # CreationChain
    THEN rejected(st, balance, "MatchingEngineChainOnly")
    ELSE IF check_account_authentication(None, authenticated_signer, order.owner) # "ok"
    THEN rejected(st, balance, "IncorrectAuthentication")
    ELSE local_outcome(execute_order_local(st, balance, order))

\* handle_application_call: a call ExecuteOrder of another application
handle_application_call(st, balance, chain_id, authenticated_caller_id, authenticated_signer, order) ==
    IF check_account_authentication(authenticated_caller_id, authenticated_signer,
                                    order.owner) # "ok"
    THEN rejected(st, balance, "IncorrectAuthentication")
    ELSE execute_order(st, balance, chain_id, order)

(***************************************************************************)
(* Matching engine state and actions                                       *)
(***************************************************************************)
EngineState ==
    [next_order_number |-> next_order_number, orders |-> orders,
     account_info |-> account_info, bids |-> bids, asks |-> asks, panic |-> FALSE]

NoOrder == [kind |-> "None"]

\* the views of the contract: the book and its indexes
Views(st) ==
    [next_order_number |-> st.next_order_number, orders |-> st.orders,
     account_info |-> st.account_info, bids |-> st.bids, asks |-> st.asks]

\* the context of a call of the contract: an OperationContext, a
\* MessageContext or a CalleeContext, told apart by the entry point
CallContext(entry, chain_id, authenticated_caller_id, authenticated_signer) ==
    [entry |-> entry, chain_id |-> chain_id,
     authenticated_caller_id |-> authenticated_caller_id,
     authenticated_signer |-> authenticated_signer]

MeInit ==
    /\ next_order_number = 0
    /\ orders = EmptyMap
    /\ account_info = EmptyMap
    /\ bids = EmptyMap
    /\ asks = EmptyMap
    /\ custody = [i \in {0, 1} |-> 0]
    /\ executed = [order |-> NoOrder, context |-> CallContext("operation", CreationChain, None, None),
                   err |-> "ok", transfers |-> <<>>, fills |-> <<>>, funds |-> <<>>,
                   messages |-> <<>>, after |-> Views(EngineState), n |-> 0]

\* One call of the contract with an order. The state is saved when the contract
\* returns Ok; when it returns an error, the call is rejected and the state and
\* the token balances stay as they were. executed records the call, its result
\* and the views as the contract left them in memory when it returned.
Execute(context, order, results) ==
    /\ UNCHANGED <<collVars, lockVars, serialized, suspended>>
    /\ \E r \in results :
          /\ executed' = [order |-> order, context |-> context, err |-> r.err,
                          transfers |-> r.transfers, fills |-> r.fills, funds |-> r.funds,
                          messages |-> r.messages, after |-> Views(r.st),
                          n |-> executed.n + 1]
          /\ IF r.err = "ok"
             THEN /\ next_order_number' = r.st.next_order_number
                  /\ orders' = r.st.orders
                  /\ account_info' = r.st.account_info
                  /\ bids' = r.st.bids
                  /\ asks' = r.st.asks
                  /\ custody' = r.custody
             ELSE UNCHANGED <<next_order_number, orders, account_info, bids, asks, custody>>

\* an operation ExecuteOrder in a block of the chain
ExecuteOrder(chain_id, authenticated_signer, order) ==
    Execute(CallContext("operation", chain_id, None, authenticated_signer), order,
            {execute_operation(EngineState, custody, chain_id, authenticated_signer, order)})

\* a message ExecuteOrder delivered on the chain
MessageExecuteOrder(chain_id, authenticated_signer, order) ==
    Execute(CallContext("message", chain_id, None, authenticated_signer), order,
            {execute_message(EngineState, custody, chain_id, authenticated_signer, order)})

\* a call ExecuteOrder of another application on the chain
CallExecuteOrder(chain_id, authenticated_caller_id, authenticated_signer, order) ==
    Execute(CallContext("application_call", chain_id, authenticated_caller_id,
                        authenticated_signer), order,
            {handle_application_call(EngineState, custody, chain_id, authenticated_caller_id,
                                     authenticated_signer, order)})

Prices == 1..MaxPrice

Amounts == 0..MaxAmount

\* the signer of a call: a user or nobody
Signers == {None} \cup {Some(address) : address \in Owners}

\* the application that calls: one or none
Callers == {None} \cup {Some(id) : id \in ApplicationIds}

InsertOrder(owner, amount, nature, price) ==
    [kind |-> "Insert", owner |-> owner, amount |-> amount, nature |-> nature, price |-> price]

CancelOrder(owner, order_id) == [kind |-> "Cancel", owner |-> owner, order_id |-> order_id]

ModifyOrder(owner, order_id, cancel_amount) ==
    [kind |-> "Modify", owner |-> owner, order_id |-> order_id, cancel_amount |-> cancel_amount]

\* the orders a call can carry in this state; the amount of an Insert is a
\* small one or the largest one
Orders ==
    {InsertOrder(owner, amount, nature, price) :
        owner \in AccountOwners, amount \in Amounts \cup {AmountMAX}, nature \in Natures,
        price \in Prices}
    \cup {CancelOrder(owner, order_id) :
             owner \in AccountOwners, order_id \in 0..next_order_number}
    \cup {ModifyOrder(owner, order_id, c) :
             owner \in AccountOwners, order_id \in 0..next_order_number, c \in Amounts}

\* the run goes on while fewer than MaxOrders orders were submitted
MoreOrders == executed.n < MaxOrders

\* Insert, Cancel and Modify: an operation of a user on the chain of the engine
\* with an order of that kind
Insert ==
    /\ MoreOrders
    /\ \E signer \in Owners, owner \in Owners, amount \in Amounts, nature \in Natures, price \in Prices :
        ExecuteOrder(CreationChain, Some(signer), InsertOrder(User(owner), amount, nature, price))

Cancel ==
    /\ MoreOrders
    /\ \E signer \in Owners, owner \in Owners, order_id \in 0..next_order_number :
        ExecuteOrder(CreationChain, Some(signer), CancelOrder(User(owner), order_id))

Modify ==
    /\ MoreOrders
    /\ \E signer \in Owners, owner \in Owners, order_id \in 0..next_order_number, c \in Amounts :
        ExecuteOrder(CreationChain, Some(signer), ModifyOrder(User(owner), order_id, c))

EngineNext == Insert \/ Cancel \/ Modify

\* the run goes on while fewer than MaxCalls calls were made
MoreCalls == executed.n < MaxCalls

\* an operation with any order, of any signer, on any chain
Operation ==
    /\ MoreCalls
    /\ \E chain_id \in Chains, signer \in Signers, order \in Orders :
        ExecuteOrder(chain_id, signer, order)

\* a call of an application with any order, on any chain
ApplicationCall ==
    /\ MoreCalls
    /\ \E chain_id \in Chains, caller \in Callers, signer \in Signers, order \in Orders :
        CallExecuteOrder(chain_id, caller, signer, order)

\* a message with any order, of any signer, delivered on any chain
MessageCall ==
    /\ MoreCalls
    /\ \E chain_id \in Chains, signer \in Signers, order \in Orders :
        MessageExecuteOrder(chain_id, signer, order)

CallNext == Operation \/ MessageCall \/ ApplicationCall

(***************************************************************************)
(* Specifications                                                          *)
(***************************************************************************)
vars == <<collVars, meVars, lockVars, serialized, suspended>>

\* a collection loaded from an empty store and a matching engine just created
Init == CollInit /\ MeInit /\ LockInit /\ serialized = Given(0, 0) /\ suspended = None

\* the collection under any sequence of its operations
Spec == Init /\ [][Next]_vars

\* the matching engine under any sequence of orders of its users
EngineSpec == Init /\ [][EngineNext]_vars

\* the contract under calls of any origin, on any chain
CallSpec == Init /\ [][CallNext]_vars

\* a collection loaded from a store it was saved in
LoadedInit == CollLoaded /\ MeInit /\ LockInit /\ serialized = Given(0, 0) /\ suspended = None

\* the collection with read guards that are kept and calls that wait
LockSpec == LoadedInit /\ [][LockNext]_vars

\* the collection with calls that are suspended at the store and may be cancelled
AwaitSpec == LoadedInit /\ [][AwaitNext]_vars

\* any two sample prices
CodecInit ==
    /\ CollInit /\ MeInit /\ LockInit /\ suspended = None
    /\ serialized \in {Given(a, b) : a \in PriceSamples, b \in PriceSamples}

\* the custom serialization of any two sample prices, and back
CodecSpec == CodecInit /\ [][CodecNext]_vars

(***************************************************************************)
(* Properties of the collection                                            *)
(***************************************************************************)
\* the short keys that occur in the store as index markers
stored_index_keys(st) ==
    {Drop(key, Len(get_index_key(<<>>))) :
        key \in {x \in DOMAIN st : IsPrefix(get_index_key(<<>>), x)}}

AllKeys == ShortKeys \cup DOMAIN updates \cup stored_index_keys(store)

\* the stored index marker and the stored register value of one entry
entry_stored(st, short_key) ==
    [index |-> store_contains_key(st, get_index_key(short_key)),
     value |-> read_value(st, base_tag(get_subview_key(short_key), RegTagValue))]

\* the view is in step with the store: no batch of a flush is unwritten, and
\* the view was not used while one was
InStep == ~sync.unwritten /\ ~sync.stale

\* the batch of a flush has just been written, and between the flush and the
\* write the view was not used
Flushed == last.op = "write_batch" /\ ~sync.stale

\* C1: Round-trip. Right after a flush whose batch was written, a collection
\* loaded from the same context shows the same keys() and the same value in
\* every entry as the flushed collection showed just before the flush.
C1_RoundTrip ==
    Flushed =>
        observe(store, load(store).delete_storage_first, load(store).updates)
            = observe(snap.store, snap.delete_storage_first, snap.updates)

\* C2: Rollback erases. Right after rollback, delete_storage_first is false,
\* updates is empty, the cached hash is the stored hash, keys() and
\* contains_key answer as a view loaded from the store does, and the store is
\* the one the last flush and the writes of its batch left.
C2_RollbackErases ==
    last.op = "rollback" =>
        /\ delete_storage_first = FALSE
        /\ updates = EmptyMap
        /\ hash = stored_hash
        /\ observe(store, delete_storage_first, updates) = clean
        /\ \A k \in AllKeys :
              contains_key(store, delete_storage_first, updates, k) <=> k \in Range(clean.keys)
        /\ store = IF sync.unwritten THEN snap.store ELSE write_batch(snap.store, batch)

\* a rollback that discarded a clear and an entry created after it, over a
\* store that holds entries
C2_Witness ==
    /\ last.op = "rollback"
    /\ last.ret[1].delete_storage_first
    /\ last.ret[1].pending # {}
    /\ clean.keys # <<>>

\* the short keys that are live: Set in updates, or not in updates and stored
\* while delete_storage_first is false
LiveKeys ==
    {k \in AllKeys :
        \/ k \in DOMAIN updates /\ IsSet(updates[k])
        \/ k \notin DOMAIN updates /\ ~delete_storage_first
              /\ store_contains_key(store, get_index_key(k))}

\* C3: keys() is strictly increasing in lexicographic order and its elements
\* are exactly the live short keys; a key whose update is Removed is not
\* returned even when it is stored.
C3_KeysExact ==
    LET ks == keys(store, delete_storage_first, updates)
    IN /\ \A i \in 1..(Len(ks) - 1) : LexLess(ks[i], ks[i + 1])
       /\ Range(ks) = LiveKeys
       /\ \A k \in DOMAIN updates : ~IsSet(updates[k]) => k \notin Range(ks)

\* a stored key shadowed by Removed, next to a stored key and a pending one
C3_Witness ==
    /\ \E k \in DOMAIN updates :
          ~IsSet(updates[k]) /\ store_contains_key(store, get_index_key(k))
    /\ \E k \in LiveKeys : k \notin DOMAIN updates
    /\ \E k \in LiveKeys : k \in DOMAIN updates /\ ~store_contains_key(store, get_index_key(k))

\* C5: Clear-mask. Right after clear(), keys() is empty and contains_key and
\* try_load_entry report absence for every key; while delete_storage_first is
\* true, only the entries put into updates since the clear are visible.
C5_ClearMask ==
    /\ last.op = "clear" =>
          /\ keys(store, delete_storage_first, updates) = <<>>
          /\ \A k \in AllKeys :
                /\ ~contains_key(store, delete_storage_first, updates, k)
                /\ try_load_entry(store, delete_storage_first, updates, k).ret = None
    /\ delete_storage_first =>
          /\ Range(keys(store, delete_storage_first, updates)) \subseteq DOMAIN updates
          /\ \A k \in AllKeys :
                /\ contains_key(store, delete_storage_first, updates, k) => k \in DOMAIN updates
                /\ try_load_entry(store, delete_storage_first, updates, k).ret # None
                      => k \in DOMAIN updates

\* stored entries are masked by a clear, an entry created afterwards is visible
C5_Witness ==
    /\ delete_storage_first
    /\ \E k \in stored_index_keys(store) : k \notin DOMAIN updates
    /\ \E k \in DOMAIN updates : ~store_contains_key(store, get_index_key(k))

\* a flush of a cleared collection with no pending entry, its batch written
FlushedCleared ==
    /\ Flushed
    /\ snap.delete_storage_first
    /\ snap.updates = EmptyMap

\* C6 as stated: after clear() and flush with no entry created in between,
\* the store holds no key under the base prefix of the collection.
C6_PrefixEmpty ==
    FlushedCleared => \A key \in DOMAIN store : ~IsPrefix(BaseKey, key)

\* C6 amended: after clear() and flush with no entry created in between, the
\* only key the store can hold under the base prefix is the hash key; it is
\* there exactly when the hash was computed between the clear and the flush,
\* and then it holds the hash of the empty collection.
C6_OnlyHashKey ==
    FlushedCleared =>
        /\ \A key \in DOMAIN store :
              IsPrefix(BaseKey, key) => key = base_tag(BaseKey, KeyTagHash)
        /\ store_contains_key(store, base_tag(BaseKey, KeyTagHash)) <=> IsSome(hash)
        /\ IsSome(hash) => store[base_tag(BaseKey, KeyTagHash)] = compute_hash(EmptyMap, FALSE, EmptyMap)

\* stored entries were wiped, and the hash computed after the clear was written
C6_Witness ==
    /\ FlushedCleared
    /\ stored_index_keys(snap.store) # {}
    /\ IsSome(hash)

\* C7: a flush that carries a removed or reset entry k leaves the stored
\* index marker and the stored sub-view data of every other entry k', which
\* has no pending update itself, as they were.
C7_SubviewDisjoint ==
    (/\ Flushed
     /\ ~snap.delete_storage_first
     /\ \E k \in DOMAIN snap.updates :
           \/ ~IsSet(snap.updates[k])
           \/ IsSet(snap.updates[k]) /\ snap.updates[k].view.dsf)
    => \A k2 \in AllKeys \ DOMAIN snap.updates :
          entry_stored(store, k2) = entry_stored(snap.store, k2)

(***************************************************************************)
(* Properties of the matching engine                                       *)
(***************************************************************************)
\* the last call was an Insert of this nature that completed on the chain of
\* the engine
Inserted(nature) ==
    /\ executed.context.chain_id = CreationChain
    /\ executed.order.kind = "Insert"
    /\ executed.order.nature = nature
    /\ executed.err = "ok"

\* C4: Uncrossed book. After every completed operation, every price level
\* present in bids has a price strictly lower than every price level present
\* in asks.
C4_Uncrossed == \A price_bid \in DOMAIN bids, price_ask \in DOMAIN asks : price_bid < price_ask

\* an Insert that was filled in part by the other side and left both sides
\* of the book with a level
C4_Witness ==
    /\ executed.order.kind = "Insert"
    /\ executed.err = "ok"
    /\ executed.fills # <<>>
    /\ DOMAIN bids # {}
    /\ DOMAIN asks # {}

RECURSIVE SumToken0(_)
\* the token-0 amount a sequence of transfers pays out
SumToken0(transfers) ==
    IF transfers = <<>> THEN 0
    ELSE (IF Head(transfers).token_idx = 0 THEN Head(transfers).amount ELSE 0)
         + SumToken0(Tail(transfers))

\* what C8 states for one fill of an incoming bid
BidFillTransfers(f) ==
    <<Transfer(executed.order.owner, f.fill, 1),
      Transfer(f.owner, executed.order.price * f.fill, 0)>>

RECURSIVE BidTransfers(_)
\* what C8 states for a sequence of fills
BidTransfers(fills) ==
    IF fills = <<>> THEN <<>> ELSE BidFillTransfers(Head(fills)) \o BidTransfers(Tail(fills))

\* C8: Incoming-Bid transfer rule. When an incoming Bid with limit price P
\* fills fill > 0 against a resting ask at level price L <= P, exactly two
\* transfers are emitted for that fill: fill of token 1 to the incoming owner
\* and P * fill of token 0 to the owner of the resting order.
C8_BidTransfers ==
    Inserted("Bid") =>
        /\ \A i \in 1..Len(executed.fills) :
              executed.fills[i].fill > 0 /\ executed.fills[i].price_level <= executed.order.price
        /\ executed.transfers = BidTransfers(executed.fills)

\* an incoming bid filled by two resting asks, one of them below its price
C8_Witness ==
    /\ Inserted("Bid")
    /\ Len(executed.fills) >= 2
    /\ \E i \in 1..Len(executed.fills) : executed.fills[i].price_level < executed.order.price

\* what C9 states for one fill of an incoming ask
AskFillTransfers(f) ==
    <<Transfer(f.owner, f.fill, 1),
      Transfer(executed.order.owner, executed.order.price * f.fill, 0)>>
    \o (IF f.price_level # executed.order.price
        THEN <<Transfer(f.owner, (f.price_level - executed.order.price) * f.fill, 0)>>
        ELSE <<>>)

RECURSIVE AskTransfers(_)
\* what C9 states for a sequence of fills
AskTransfers(fills) ==
    IF fills = <<>> THEN <<>> ELSE AskFillTransfers(Head(fills)) \o AskTransfers(Tail(fills))

\* C9: Incoming-Ask transfer rule. When an incoming Ask with limit price P
\* fills fill > 0 against a resting bid at level price L >= P, the incoming
\* owner receives P * fill of token 0, the resting owner receives fill of
\* token 1 and, exactly when L # P, (L - P) * fill of token 0 as well; the
\* token-0 payouts of the fill sum to L * fill.
C9_AskTransfers ==
    Inserted("Ask") =>
        /\ \A i \in 1..Len(executed.fills) :
              LET f == executed.fills[i]
              IN /\ f.fill > 0
                 /\ f.price_level >= executed.order.price
                 /\ SumToken0(AskFillTransfers(f)) = f.price_level * f.fill
        /\ executed.transfers = AskTransfers(executed.fills)

\* an incoming ask filled by a resting bid above its price and by one at its price
C9_Witness ==
    /\ Inserted("Ask")
    /\ \E i \in 1..Len(executed.fills) : executed.fills[i].price_level > executed.order.price
    /\ \E i \in 1..Len(executed.fills) : executed.fills[i].price_level = executed.order.price

RECURSIVE SumAmounts(_)
\* the amounts of the orders of a level
SumAmounts(queue) ==
    IF queue = <<>> THEN 0 ELSE Head(queue).amount + SumAmounts(Tail(queue))

RECURSIVE Collateral(_, _, _)
\* the collateral of the resting orders of the levels in prices: price * amount
\* for a bid, amount for an ask
Collateral(book, prices, nature) ==
    IF prices = {} THEN 0
    ELSE LET price == CHOOSE p \in prices : TRUE
         IN (IF nature = "Bid" THEN price ELSE 1) * SumAmounts(book[price])
            + Collateral(book, prices \ {price}, nature)

\* C10: Custody conservation. After every completed operation, what the engine
\* holds is the collateral of the resting orders: in token 0 the sum over the
\* resting bids of price * amount, in token 1 the sum over the resting asks of
\* amount; and no operation is refused because the engine would be overdrawn.
C10_Custody ==
    /\ custody[0] = Collateral(bids, DOMAIN bids, "Bid")
    /\ custody[1] = Collateral(asks, DOMAIN asks, "Ask")
    /\ executed.err # "InsufficientBalance"

\* a partial cancellation that refunded collateral of a bid priced above one and
\* left collateral in custody
C10_Witness ==
    /\ executed.order.kind = "Modify"
    /\ executed.err = "ok"
    /\ executed.transfers[1].token_idx = 0
    /\ executed.transfers[1].amount > 1
    /\ custody[0] > 1
    /\ next_order_number >= 2

\* the amount an order of the level at price has in the book, zero when the
\* order or the level is not in the book
AmountIn(book, price, order_id) ==
    IF price \in DOMAIN book /\ find_order(book[price], order_id) # 0
    THEN book[price][find_order(book[price], order_id)].amount
    ELSE 0

\* the orders that are ahead of the order at position i of the level at price:
\* the orders before it in its queue and the orders of the better levels
Ahead(book, nature, price, i) ==
    {[price |-> price, order_id |-> book[price][j].order_id] : j \in 1..(i - 1)}
    \cup UNION {{[price |-> p, order_id |-> book[p][j].order_id] : j \in 1..Len(book[p])} :
                 p \in {q \in DOMAIN book : IF nature = "Bid" THEN q < price ELSE q > price}}

\* what C11 states for an Insert that takes the book of the other side from
\* before to after with these fills
PriorityKept(before, after, nature, fills) ==
    \A n \in 1..Len(fills) :
        LET f == fills[n]
        IN /\ f.price_level \in DOMAIN before
           /\ find_order(before[f.price_level], f.order_id) # 0
           /\ \A a \in Ahead(before, nature, f.price_level,
                                find_order(before[f.price_level], f.order_id)) :
                 AmountIn(after, a.price, a.order_id) = 0

\* C11: Price-time priority. An incoming order consumes the other side best
\* level first and, within a level, in insertion order: a resting order is
\* filled only if every order ahead of it in its queue and every order of a
\* strictly better level has amount zero after the operation.
C11_PriceTimePriority ==
    [][(/\ executed'.context.chain_id = CreationChain
        /\ executed'.order.kind = "Insert"
        /\ executed'.err = "ok")
          => IF executed'.order.nature = "Bid"
             THEN PriorityKept(asks, asks', "Bid", executed'.fills)
             ELSE PriorityKept(bids, bids', "Ask", executed'.fills)]_vars

\* an incoming ask that was filled by bids of two levels
C11_Witness ==
    /\ Inserted("Ask")
    /\ \E i, j \in 1..Len(executed.fills) :
          executed.fills[i].price_level # executed.fills[j].price_level

RECURSIVE SumFills(_)
\* the total amount of a sequence of fills
SumFills(fills) ==
    IF fills = <<>> THEN 0 ELSE Head(fills).fill + SumFills(Tail(fills))

\* what C12 states for an Insert of this order with order_id that takes the
\* book of its own side from before to after and leaves the residual amount
ResidualRested(before, after, order, order_id, residual) ==
    IF residual > 0
    THEN /\ DOMAIN after = DOMAIN before \cup {order.price}
         /\ \A p \in DOMAIN before \ {order.price} : after[p] = before[p]
         /\ after[order.price] =
                Append(IF order.price \in DOMAIN before THEN before[order.price] ELSE <<>>,
                       [amount |-> residual, owner |-> order.owner, order_id |-> order_id])
         /\ order_id \in DOMAIN orders'
         /\ orders'[order_id] =
                [price |-> order.price, nature |-> order.nature, owner |-> order.owner]
         /\ order.owner \in DOMAIN account_info'
         /\ order_id \in account_info'[order.owner]
    ELSE /\ residual = 0
         /\ after = before
         /\ orders' = orders
         /\ \A owner \in DOMAIN account_info' :
               /\ owner \in DOMAIN account_info
               /\ account_info'[owner] \subseteq account_info[owner]

\* C12: Residual rests. For an Insert of amount A at price P with total filled
\* amount F, a new order with amount A - F is appended at the back of the level
\* keyed by P of its own side if and only if A - F > 0, and then orders holds
\* (P, side, owner) for its order id and account_info of the owner holds the
\* order id; when A - F = 0 neither the book of its side nor the indexes gain
\* an entry.
C12_ResidualRests ==
    [][(/\ executed'.context.chain_id = CreationChain
        /\ executed'.order.kind = "Insert"
        /\ executed'.err = "ok")
          => IF executed'.order.nature = "Bid"
             THEN ResidualRested(bids, bids', executed'.order, next_order_number,
                                 executed'.order.amount - SumFills(executed'.fills))
             ELSE ResidualRested(asks, asks', executed'.order, next_order_number,
                                 executed'.order.amount - SumFills(executed'.fills))]_vars

\* an Insert that was filled in part by a resting order and whose residual
\* rests at its price
C12_Witness ==
    /\ executed.order.kind = "Insert"
    /\ executed.err = "ok"
    /\ Len(executed.fills) = 1
    /\ SumFills(executed.fills) < executed.order.amount
    /\ \E book \in {IF executed.order.nature = "Bid" THEN bids ELSE asks} :
          /\ executed.order.price \in DOMAIN book
          /\ Len(book[executed.order.price]) = 1

\* an order with this id and a non-zero amount sits in a queue of the book
Resting(order_id) ==
    \E book \in {bids, asks} : \E price \in DOMAIN book : \E i \in 1..Len(book[price]) :
        /\ book[price][i].order_id = order_id
        /\ book[price][i].amount > 0

\* C13: Deindexing. After any completed Insert, Cancel or Modify, every order
\* whose amount has reached zero (fully filled or fully cancelled) is absent
\* from the orders map and from the account_info set of its owner.
C13_Deindexed ==
    \A order_id \in 0..(next_order_number - 1) :
        ~Resting(order_id) =>
            /\ order_id \notin DOMAIN orders
            /\ \A owner \in DOMAIN account_info : order_id \notin account_info[owner]

\* the errors of a Cancel or a Modify
ModifyErrors == {"OrderNotPresent", "WrongOwnerOfOrder", "TooLargeModifyOrder"}

\* C14: A Cancel or Modify that returns an error (OrderNotPresent,
\* WrongOwnerOfOrder, TooLargeModifyOrder) leaves the order book unchanged: the
\* level keys and queues of bids and asks, the orders map, account_info and
\* next_order_number are the same as before the call, and no transfer is
\* emitted.
C14_ErrorKeepsBook ==
    (executed.order.kind \in {"Cancel", "Modify"} /\ executed.err \in ModifyErrors)
        => /\ executed.after = Views(EngineState)
           /\ executed.transfers = <<>>

\* the origin of the call is the declared owner of the order
Authenticated(context, owner) ==
    \/ \E address \in Owners :
          owner = User(address) /\ context.authenticated_signer = Some(address)
    \/ \E id \in ApplicationIds :
          owner = Application(id) /\ context.authenticated_caller_id = Some(id)

\* a message delivered on a chain other than the creation chain of the engine
MisdeliveredMessage(context) ==
    context.entry = "message" /\ context.chain_id # CreationChain

\* C15 as stated: Authentication. An order is executed only if its declared
\* owner is User(a) and the authenticated signer is a, or its owner is
\* Application(id) and the authenticated caller application is id; every other
\* submission fails with IncorrectAuthentication before any state change, any
\* transfer and any outgoing message.
C15_AsWorded ==
    executed.order # NoOrder =>
        IF Authenticated(executed.context, executed.order.owner)
        THEN executed.err # "IncorrectAuthentication"
        ELSE /\ executed.err = "IncorrectAuthentication"
             /\ executed.after = Views(EngineState)
             /\ executed.transfers = <<>>
             /\ executed.funds = <<>>
             /\ executed.messages = <<>>

\* C15 amended: Authentication. An order is executed only if its declared
\* owner is User(a) and the authenticated signer is a, or its owner is
\* Application(id) and the authenticated caller application is id; every other
\* submission fails before any state change, any transfer and any outgoing
\* message: with MatchingEngineChainOnly when it is a message delivered on a
\* chain other than the creation chain, which is rejected before its origin is
\* looked at, and with IncorrectAuthentication otherwise.
C15_Authentication ==
    executed.order # NoOrder =>
        IF Authenticated(executed.context, executed.order.owner)
        THEN executed.err # "IncorrectAuthentication"
        ELSE /\ executed.err = IF MisdeliveredMessage(executed.context)
                               THEN "MatchingEngineChainOnly"
                               ELSE "IncorrectAuthentication"
             /\ executed.after = Views(EngineState)
             /\ executed.transfers = <<>>
             /\ executed.funds = <<>>
             /\ executed.messages = <<>>

\* a user that signs the Cancel of the resting order of an application is
\* rejected
C15_Witness ==
    /\ executed.order.kind = "Cancel"
    /\ executed.order.owner \in {Application(id) : id \in ApplicationIds}
    /\ executed.context.authenticated_signer # None
    /\ executed.context.authenticated_caller_id = None
    /\ executed.err = "IncorrectAuthentication"
    /\ executed.order.order_id \in DOMAIN orders
    /\ orders[executed.order.order_id].owner = executed.order.owner
    /\ Resting(executed.order.order_id)

\* the book of the side of an order of this nature
BookOf(nature, book_bids, book_asks) == IF nature = "Bid" THEN book_bids ELSE book_asks

\* what C16 states for a Cancel or Modify of the order with this id, recorded
\* as key_book, that takes its amount from old to new
Refunded(order, key_book, old, new) ==
    \E c \in {IF order.kind = "Cancel" THEN old ELSE order.cancel_amount} :
        /\ new = old - c
        /\ executed'.transfers =
              <<IF key_book.nature = "Bid"
                THEN Transfer(key_book.owner, key_book.price * c, 0)
                ELSE Transfer(key_book.owner, c, 1)>>

\* C16: Refund on cancel/modify. A successful Cancel or Modify of an order
\* emits exactly one transfer, to the recorded owner of the order: for a bid at
\* price P it is P * c of token 0, for an ask it is c of token 1, where c is the
\* amount by which the order was reduced (its whole remaining amount for
\* Cancel, the cancel amount for Modify), and the new amount of the order is its
\* old amount minus c.
C16_Refund ==
    [][(/\ executed'.context.chain_id = CreationChain
        /\ executed'.order.kind \in {"Cancel", "Modify"}
        /\ executed'.err = "ok")
          => /\ executed'.order.order_id \in DOMAIN orders
             /\ \E key_book \in {orders[executed'.order.order_id]} :
                   Refunded(executed'.order, key_book,
                            AmountIn(BookOf(key_book.nature, bids, asks), key_book.price,
                                     executed'.order.order_id),
                            AmountIn(BookOf(key_book.nature, bids', asks'), key_book.price,
                                     executed'.order.order_id))]_vars

\* a bid priced above one was cancelled in part and keeps a non-zero amount
C16_Witness ==
    /\ executed.order.kind = "Modify"
    /\ executed.err = "ok"
    /\ executed.order.cancel_amount > 0
    /\ orders[executed.order.order_id].nature = "Bid"
    /\ orders[executed.order.order_id].price > 1
    /\ Resting(executed.order.order_id)

\* what C17 states for a Cancel or Modify of an authenticated owner
Classified(order) ==
    IF order.order_id \notin DOMAIN orders
    THEN executed'.err = "OrderNotPresent"
    ELSE IF orders[order.order_id].owner # order.owner
    THEN executed'.err = "WrongOwnerOfOrder"
    ELSE \E key_book \in {orders[order.order_id]} :
            \E book \in {BookOf(key_book.nature, bids, asks)} :
               (/\ order.kind = "Modify"
                /\ key_book.price \in DOMAIN book
                /\ find_order(book[key_book.price], order.order_id) # 0
                /\ order.cancel_amount > AmountIn(book, key_book.price, order.order_id))
                  => /\ executed'.err = "TooLargeModifyOrder"
                     /\ bids' = bids
                     /\ asks' = asks
                     /\ AmountIn(BookOf(key_book.nature, executed'.after.bids,
                                         executed'.after.asks),
                                  key_book.price, order.order_id)
                           = AmountIn(book, key_book.price, order.order_id)

\* C17: Error classification of Cancel/Modify. An order id that is not in the
\* orders map fails with OrderNotPresent; an id whose recorded owner differs
\* from the declared owner fails with WrongOwnerOfOrder; a Modify whose cancel
\* amount is greater than the current amount of the order fails with
\* TooLargeModifyOrder and the amount of the order is unchanged.
C17_ErrorClasses ==
    [][(/\ executed'.context.chain_id = CreationChain
        /\ executed'.order.kind \in {"Cancel", "Modify"}
        /\ Authenticated(executed'.context, executed'.order.owner))
          => Classified(executed'.order)]_vars

\* a user asked to cancel the resting order of another user
C17_Witness ==
    /\ executed.order.kind = "Cancel"
    /\ executed.err = "WrongOwnerOfOrder"
    /\ Resting(executed.order.order_id)

\* C18: Arithmetic overflow of a token amount (price * amount above the range
\* of Amount in the collateral computation of an Insert) is returned to the
\* caller as an error value, and the order book, the indexes and
\* next_order_number are unchanged.
C18_OverflowIsError ==
    (/\ executed.order.kind = "Insert"
     /\ Authenticated(executed.context, executed.order.owner)
     /\ executed.order.nature = "Bid"
     /\ executed.order.price * executed.order.amount > AmountMAX)
        => /\ executed.err \notin {"ok", "panic"}
           /\ executed.after = Views(EngineState)

\* the index marker of the short key is in the store
IndexStored(short_key) == base_tag_index(BaseKey, KeyTagIndex, short_key) \in DOMAIN store

\* contains_key answers by the three cases of its code and agrees with keys()
ContainsKeyAgrees ==
    \E listed \in {Range(keys(store, delete_storage_first, updates))} :
        \A k \in AllKeys :
            \E found \in {contains_key(store, delete_storage_first, updates, k)} :
                /\ found = IF k \in DOMAIN updates
                           THEN updates[k] # Removed
                           ELSE IF delete_storage_first THEN FALSE ELSE IndexStored(k)
                /\ found = (k \in listed)

\* C19: contains_key(k) returns true if updates[k] is Set, false if updates[k]
\* is Removed, and otherwise false when delete_storage_first is true and else
\* whether the index key of k is in the store; hence in every state
\* contains_key(k) is true exactly when k is an element of keys().
C19_ContainsKey == []ContainsKeyAgrees

\* a stored entry that is removed, an entry that is only in the updates and a
\* stored entry that the updates do not hold
C19_Witness ==
    /\ ~delete_storage_first
    /\ \E k \in DOMAIN updates : updates[k] = Removed /\ IndexStored(k)
    /\ \E k \in DOMAIN updates : updates[k] # Removed /\ ~IndexStored(k)
    /\ \E k \in AllKeys \ DOMAIN updates : IndexStored(k)

\* what C20 states for a try_load_entry of short_key that returned ret
TryLoaded(short_key, ret) ==
    /\ (ret = None)
          = IF short_key \in DOMAIN updates
            THEN updates[short_key] = Removed
            ELSE delete_storage_first \/ ~IndexStored(short_key)
    /\ ret # None
          => /\ short_key \in DOMAIN updates'
             /\ updates'[short_key] # Removed
             /\ ret = Some(updates'[short_key].view)
    /\ keys(store', delete_storage_first', updates')
          = keys(store, delete_storage_first, updates)
    /\ delete_storage_first' = delete_storage_first
    /\ hash' = hash

\* C20: When the updates lock is free, try_load_entry(k) returns None exactly
\* when updates[k] is Removed, or k is absent from updates and
\* delete_storage_first is true or the index key of k is not in the store;
\* otherwise it returns a read guard on the Set sub-view for k; in both cases
\* keys(), delete_storage_first and the cached hash are the same as before the
\* call.
C20_TryLoadEntry ==
    [][(nops' # nops /\ last'.op = "try_load_entry") => TryLoaded(last'.key, last'.ret)]_vars

\* try_load_entry of a stored entry of a cleared collection returned None
C20_Witness ==
    /\ last.op = "try_load_entry"
    /\ last.ret = None
    /\ delete_storage_first
    /\ IndexStored(last.key)
    /\ last.key \notin DOMAIN updates

\* C21: try_load_entry never blocks: it never waits for the lock, and whenever
\* the updates lock is already held (by a live ReadGuardedView, or by a call
\* that is at its await on the store), the call returns
\* CannotAcquireCollectionEntry at once and leaves updates unchanged; with the
\* lock free it succeeds, at once or when the store has answered.
C21_TryLoadNeverBlocks ==
    /\ [](waiting # None => waiting[1].op # "try_load_entry")
    /\ [][(nops' # nops /\ last'.op = "try_load_entry" /\ Len(last'.ret) = 2)
             => IF suspended # None /\ suspended' = None
                THEN last'.ret[1] = "Ok"
                ELSE IF Holders(guard, suspended) # {}
                THEN /\ last'.ret = Err("CannotAcquireCollectionEntry")
                     /\ updates' = updates
                     /\ guard' = guard
                     /\ suspended' = suspended
                ELSE last'.ret[1] = "Ok"]_vars

\* a try_load_entry failed while a guard of a stored entry was held
C21_Witness ==
    /\ last.op = "try_load_entry"
    /\ Len(last.ret) = 2
    /\ last.ret = Err("CannotAcquireCollectionEntry")
    /\ guard # None
    /\ IndexStored(guard[1])

\* C22: contains_key, keys and hash take only a shared lock on the updates
\* map, so none of them waits while a ReadGuardedView is held.
C22_ReadsComplete == guard # None => waiting = None
\* the updates of every key other than short_key are as before the step
OthersKept(short_key) ==
    /\ DOMAIN updates' \ {short_key} = DOMAIN updates \ {short_key}
    /\ \A k \in DOMAIN updates \ {short_key} : updates'[k] = updates[k]

\* what C23 states for the step that ran load_entry_mut or load_entry_or_insert
EntryLoaded(short_key) ==
    /\ short_key \in DOMAIN updates'
    /\ IsSet(updates'[short_key])
    /\ contains_key(store', delete_storage_first', updates', short_key)
    /\ short_key \in Range(keys(store', delete_storage_first', updates'))
    /\ hash' = None
    /\ OthersKept(short_key)

\* C23: after load_entry_mut(k) or load_entry_or_insert(k) completes,
\* updates[k] is Set, contains_key(k) is true, k is in keys() and the cached
\* hash is None, and the updates of every other key are unchanged.
C23_LoadEntryMut ==
    [][(nops' # nops /\ last'.op \in {"load_entry_mut", "load_entry_or_insert"})
          => EntryLoaded(last'.key)]_vars

\* an entry marked Removed was loaded again next to another pending entry,
\* after a hash had been cached
C23_Witness ==
    /\ last.op \in {"load_entry_mut", "load_entry_or_insert"}
    /\ IndexStored(last.key)
    /\ IsSome(stored_hash)
    /\ \E k \in DOMAIN updates : k # last.key /\ updates[k] = Removed

\* what C24 states for the step that ran remove_entry
EntryRemoved(short_key) ==
    /\ ~contains_key(store', delete_storage_first', updates', short_key)
    /\ short_key \notin Range(keys(store', delete_storage_first', updates'))
    /\ try_load_entry(store', delete_storage_first', updates', short_key).ret = None
    /\ hash' = None
    /\ IF delete_storage_first
       THEN short_key \notin DOMAIN updates'
       ELSE short_key \in DOMAIN updates' /\ updates'[short_key] = Removed
    /\ OthersKept(short_key)
    /\ short_key \notin Range(keys(store, delete_storage_first, updates))
          => keys(store', delete_storage_first', updates')
                = keys(store, delete_storage_first, updates)

\* C24: after remove_entry(k), contains_key(k) is false, k is not in keys(),
\* try_load_entry(k) is None and the cached hash is None; when
\* delete_storage_first is true the key is erased from updates, otherwise
\* updates[k] becomes Removed; removing a key that is not live leaves keys()
\* unchanged.
C24_RemoveEntry ==
    [][(nops' # nops /\ last'.op = "remove_entry") => EntryRemoved(last'.key)]_vars

\* a stored entry was removed from a cleared collection that holds pending
\* entries: the key is not in the updates
C24_Witness ==
    /\ last.op = "remove_entry"
    /\ delete_storage_first
    /\ IndexStored(last.key)
    /\ last.key \notin DOMAIN updates
    /\ updates # EmptyMap

\* C25: Flush post-condition. Right after flush, updates is empty,
\* delete_storage_first is false and stored_hash equals the cached hash; a
\* second flush right after appends no operation to the batch, and a rollback
\* right after changes no field.
C25_FlushPost ==
    last.op = "flush" =>
        /\ updates = EmptyMap
        /\ delete_storage_first = FALSE
        /\ stored_hash = hash
        /\ flush(delete_storage_first, updates, stored_hash, hash).batch = <<>>
        /\ flush(delete_storage_first, updates, stored_hash, hash).stored_hash = stored_hash
        /\ rollback(stored_hash)
              = [delete_storage_first |-> delete_storage_first, updates |-> updates,
                 hash |-> hash]

\* a flush of a cleared collection with pending entries and a computed hash
C25_Witness ==
    /\ last.op = "flush"
    /\ snap.delete_storage_first
    /\ snap.updates # EmptyMap
    /\ IsSome(hash)
    /\ batch # <<>>
\* the hash of a collection with the given keys and the given value per key
hash_of_contents(seen) ==
    [i \in 1..Len(seen.keys) |-> <<seen.keys[i], <<"reg", seen.vals[seen.keys[i]]>>>>]

\* what hash() returns: the cached hash, or the computed one
hash_returned ==
    IF IsSome(hash) THEN hash[1] ELSE compute_hash(store, delete_storage_first, updates)

\* C26: Hash determinism. hash() depends only on the logical contents: it is
\* the hash of keys() and of the sub-view contents per key, whatever the
\* mutation history (entries held as Set in updates or only in the store,
\* Removed markers of keys absent from the store).
C26_HashDeterminism ==
    InStep => hash_returned = hash_of_contents(observe(store, delete_storage_first, updates))
\* keys of other views in the same store: their base prefixes neither extend
\* the base key of the collection nor are extended by it
ForeignKeys == {<<6>>, <<6, 2, 0, 1>>, <<8, 1, 0>>, <<8, 3>>, <<70, 1>>}

ForeignValue == <<"other view">>

\* the store with the keys of the other views added
with_foreign(st) ==
    [key \in DOMAIN st \cup ForeignKeys |-> IF key \in ForeignKeys THEN ForeignValue ELSE st[key]]

\* C27: Prefix isolation. Every operation that flush appends to the batch
\* (put, delete, delete_prefix) targets a key or prefix that begins with the
\* base key of the collection, so writing the batch changes no store key
\* under a base prefix that neither extends nor is extended by its own.
C27_PrefixIsolation ==
    /\ last.op = "flush" => \A i \in 1..Len(batch) : IsPrefix(BaseKey, batch[i].key)
    /\ Flushed => write_batch(with_foreign(snap.store), batch) = with_foreign(store)

\* a flush of a cleared collection over stored entries that put a new entry,
\* and its batch written
C27_Witness ==
    /\ Flushed
    /\ stored_index_keys(snap.store) # {}
    /\ \E i \in 1..Len(batch) : batch[i].op = "DeletePrefix" /\ batch[i].key = BaseKey
    /\ \E i \in 1..Len(batch) : batch[i].op = "Put"
\* C28: Custom-ordered keys are a strictly monotonic embedding: the bytes of
\* PriceAsk a are lexicographically below those of PriceAsk b iff a < b, and
\* the bytes of PriceBid a are below those of PriceBid b iff a > b; iterating
\* asks visits the levels in ascending price and iterating bids in descending
\* price.
C28_MonotonicKeys ==
    serialized.stage # "given" =>
        /\ LexLess(serialized.ask[1], serialized.ask[2]) <=> serialized.a < serialized.b
        /\ LexLess(serialized.bid[1], serialized.bid[2]) <=> serialized.a > serialized.b
        /\ Range(serialized.ask_order) = {serialized.a, serialized.b}
        /\ Range(serialized.bid_order) = {serialized.a, serialized.b}
        /\ \A i \in 1..(Len(serialized.ask_order) - 1) :
              serialized.ask_order[i] < serialized.ask_order[i + 1]
        /\ \A i \in 1..(Len(serialized.bid_order) - 1) :
              serialized.bid_order[i] > serialized.bid_order[i + 1]

\* the lower price has the higher low byte, and the prices differ in length
C28_Witness ==
    /\ serialized.stage = "serialized"
    /\ serialized.a < serialized.b
    /\ serialized.a % 256 > serialized.b % 256
    /\ serialized.b >= 65536

\* C29: Custom serialization round-trips: from_custom_bytes(to_custom_bytes(x))
\* returns the same price for x = PriceAsk{p} and for x = PriceBid{p}.
C29_RoundTrip ==
    serialized.stage = "restored" =>
        /\ serialized.ask_back = <<serialized.a, serialized.b>>
        /\ serialized.bid_back = <<serialized.a, serialized.b>>

\* prices of one byte and of four bytes were read back
C29_Witness ==
    /\ serialized.stage = "restored"
    /\ serialized.a = 255
    /\ serialized.b = 2147483647
    /\ serialized.bid # serialized.ask
\* the places of the orders in the queues of one side of the book
Positions(book) == UNION {{<<price, i>> : i \in 1..Len(book[price])} : price \in DOMAIN book}

\* the order ids in the queues of one side of the book
IdsIn(book) == {book[pos[1]][pos[2]].order_id : pos \in Positions(book)}

\* no two orders of the book share an id, and every id in the book, in orders
\* and in account_info was handed out
IdsDistinct(book_bids, book_asks, ids, accounts, next) ==
    /\ Cardinality(IdsIn(book_bids)) = Cardinality(Positions(book_bids))
    /\ Cardinality(IdsIn(book_asks)) = Cardinality(Positions(book_asks))
    /\ IdsIn(book_bids) \cap IdsIn(book_asks) = {}
    /\ IdsIn(book_bids) \cup IdsIn(book_asks) \cup ids \subseteq 0..(next - 1)
    /\ \A owner \in DOMAIN accounts : accounts[owner] \subseteq 0..(next - 1)

\* C30: order ids are taken from next_order_number, starting at 0 and
\* increasing by exactly one per Insert that reaches the book (also when the
\* order is fully filled and never rests); no two orders ever share an id and
\* next_order_number never decreases; Cancel and Modify do not consume an id.
C30_OrderIds ==
    [][executed'.n # executed.n
          => /\ executed.n = 0 => next_order_number = 0
             /\ IF executed'.order.kind = "Insert" /\ executed'.err = "ok"
                THEN /\ next_order_number' = next_order_number + 1
                     /\ (IdsIn(bids') \cup IdsIn(asks')) \ (IdsIn(bids) \cup IdsIn(asks))
                           \subseteq {next_order_number}
                     /\ DOMAIN orders' \ DOMAIN orders \subseteq {next_order_number}
                     /\ SumFills(executed'.fills) < executed'.order.amount
                           => next_order_number \in DOMAIN orders'
                ELSE /\ next_order_number' = next_order_number
                     /\ DOMAIN orders' = DOMAIN orders
             /\ IdsDistinct(bids', asks', DOMAIN orders', account_info', next_order_number')]_vars

\* the third call is an Insert that was filled completely and took the second
\* id: one of the calls before it took none, and no order rests
C30_Witness ==
    /\ executed.order.kind = "Insert"
    /\ executed.err = "ok"
    /\ SumFills(executed.fills) = executed.order.amount
    /\ executed.n = 3
    /\ next_order_number = 2
    /\ IdsIn(bids) \cup IdsIn(asks) = {}
\* the orders in the queues of one side of the book, with their level
Placed(book, nature) ==
    {[nature |-> nature, price |-> pos[1], order_id |-> book[pos[1]][pos[2]].order_id,
      owner |-> book[pos[1]][pos[2]].owner, amount |-> book[pos[1]][pos[2]].amount] :
        pos \in Positions(book)}

PlacedIn(book_bids, book_asks) == Placed(book_bids, "Bid") \cup Placed(book_asks, "Ask")

\* what C31 states for one order of the book after a call: it sat in the same
\* queue with at least this amount before, or the call is the Insert that
\* rested it with its residual amount
NotGrown(after) ==
    IF \E before \in PlacedIn(bids, asks) : before.order_id = after.order_id
    THEN \A before \in PlacedIn(bids, asks) :
            before.order_id = after.order_id
                => /\ after.amount <= before.amount
                   /\ [after EXCEPT !.amount = 0] = [before EXCEPT !.amount = 0]
    ELSE /\ executed'.order.kind = "Insert"
         /\ executed'.err = "ok"
         /\ after.order_id = next_order_number
         /\ after.amount = executed'.order.amount - SumFills(executed'.fills)
         /\ after.amount <= executed'.order.amount

\* C31: the size of an order never increases: for every order id, the amount
\* recorded for it in its level queue is non-increasing across any sequence
\* of Insert, Cancel and Modify, and never exceeds the residual amount with
\* which it was first rested.
C31_SizeNeverIncreases ==
    [][executed'.n # executed.n
          => \A after \in PlacedIn(bids', asks') : NotGrown(after)]_vars

\* a Modify took a part of an order that still rests with the rest
C31_Witness ==
    /\ executed.order.kind = "Modify"
    /\ executed.err = "ok"
    /\ executed.order.cancel_amount > 0
    /\ \E placed \in PlacedIn(bids, asks) :
          placed.order_id = executed.order.order_id /\ placed.amount > 0
\* the collateral of an Insert: price * amount of token 0 for a bid, amount of
\* token 1 for an ask
Collateral32(order) ==
    IF order.nature = "Bid"
    THEN [amount |-> order.price * order.amount, token_idx |-> 0]
    ELSE [amount |-> order.amount, token_idx |-> 1]

\* what C32 states for the call recorded in executed', made on another chain
RemoteDone(call) ==
    /\ UNCHANGED <<next_order_number, orders, account_info, bids, asks, custody>>
    /\ call.after = Views(EngineState)
    /\ call.transfers = <<>>
    /\ call.messages = <<OutgoingMessage(CreationChain, Message(call.order))>>
    /\ call.funds =
          IF call.order.kind = "Insert"
          THEN <<[owner |-> call.order.owner,
                  amount |-> Collateral32(call.order).amount,
                  token_idx |-> Collateral32(call.order).token_idx,
                  destination |-> Account(CreationChain, call.order.owner)]>>
          ELSE <<>>

\* C32: Remote submission. When an authenticated order is submitted (by an
\* operation or by the call of an application) on a chain other than the
\* creation chain of the engine, the local order book and
\* indexes are not modified and exactly one ExecuteOrder message carrying the
\* order is sent to the creation chain; for an Insert the required collateral
\* is first transferred to the account of the same owner on the creation
\* chain, and for Cancel or Modify no transfer is made.
C32_RemoteSubmission ==
    [][(/\ executed'.n # executed.n
        /\ executed'.context.entry # "message"
        /\ executed'.context.chain_id # CreationChain
        /\ Authenticated(executed'.context, executed'.order.owner))
          => RemoteDone(executed')]_vars
\* C33: Cancellation safety. If a suspended collection operation
\* (load_entry_mut, load_entry_or_insert, try_load_entry, contains_key, keys,
\* hash) is cancelled at a store suspension point, the in-memory state of the
\* collection (delete_storage_first, updates, stored_hash, cached hash) is the
\* same as after the most recent completed operation.
C33_CancellationSafety ==
    [][(/\ suspended # None
        /\ suspended[1].call.op \in {"load_entry_mut", "load_entry_or_insert",
                                     "try_load_entry", "contains_key", "keys", "hash"}
        /\ last'.op = "cancelled")
          => InMemory' = suspended[1].before]_vars
\* the cached hash, when there is one, is the hash of the current contents
HashCoherent ==
    InStep /\ IsSome(hash) => hash[1] = compute_hash(store, delete_storage_first, updates)

\* the operations that change the contents leave no cached hash
MutationsInvalidate ==
    last'.op \in {"load_entry_mut", "load_entry_or_insert", "reset_entry_to_default",
                  "remove_entry", "clear"}
        /\ nops' # nops
        => hash' = None

\* C34: Hash cache coherence. In every reachable state, if the cached hash is
\* Some(h) then h equals the value compute_hash would return for the current
\* logical contents (keys() and the sub-view hash of each live entry); every
\* load_entry_mut, load_entry_or_insert, reset_entry_to_default, remove_entry
\* and clear sets the cached hash to None.
C34_HashCacheCoherence == []HashCoherent /\ [][MutationsInvalidate]_vars
\* C35: Stored-hash invariant. After load and after every flush whose batch
\* has been applied, stored_hash equals the value held at the TAG_HASH key of
\* the store (None exactly when the key is absent), including flushes that
\* follow clear() and flushes performed while the cached hash is None.
C35_StoredHash ==
    last.op = "load" \/ Flushed =>
        /\ stored_hash = read_value(store, base_tag(BaseKey, KeyTagHash))
        /\ stored_hash = None <=> ~store_contains_key(store, base_tag(BaseKey, KeyTagHash))

\* a flush after clear() that found the hash it had stored before cached
\* again: the prefix deletion removed the TAG_HASH key and the flush put it back
C35_Witness ==
    /\ Flushed
    /\ snap.delete_storage_first
    /\ IsSome(stored_hash)
    /\ read_value(snap.store, base_tag(BaseKey, KeyTagHash)) = stored_hash
    /\ batch[Len(batch)] = Put(base_tag(BaseKey, KeyTagHash), stored_hash[1])
\* the entry is masked: marked Removed, or not pending in a cleared collection
MaskedEntry(short_key) ==
    \/ short_key \in DOMAIN updates /\ ~IsSet(updates[short_key])
    \/ delete_storage_first /\ short_key \notin DOMAIN updates

\* the precondition as C36 words it: Removed, or the collection is cleared
MaskedAsWorded(short_key) ==
    \/ short_key \in DOMAIN updates /\ ~IsSet(updates[short_key])
    \/ delete_storage_first

\* the sub-view that do_load_entry_mut has put into the updates is cleared; it
\* is seen through load_entry_or_insert, which hands it out as it is
ReturnedCleared ==
    /\ last'.ret = Some(DefaultVal)
    /\ updates'[last'.key].view.dsf
    /\ RegGet(updates'[last'.key].view) = DefaultVal

\* after flush and the write of the batch, every entry that was pending in
\* its cleared state exists and reads as the default from the store
FlushedCleared36 ==
    Flushed =>
        \A k \in DOMAIN snap.updates :
            IsSet(snap.updates[k]) /\ snap.updates[k].view.dsf =>
                /\ store_contains_key(store, get_index_key(k))
                /\ k \in Range(keys(store, delete_storage_first, updates))
                /\ RegGet(load_subview(store, k)) = DefaultVal
                /\ entry_value(store, load(store).updates, k) = DefaultVal

\* C36 as worded: Residue masking. When updates[k] is Removed or
\* delete_storage_first is true, the sub-view returned by load_entry_mut(k) is
\* in its cleared (default) state, and after flush, application of the batch
\* and reload, entry k exists and holds none of the sub-view data that was
\* stored under k before the removal or clear.
C36_AsWorded ==
    /\ [][(last'.op = "load_entry_or_insert" /\ nops' # nops /\ MaskedAsWorded(last'.key))
            => ReturnedCleared]_vars
    /\ []FlushedCleared36

\* C36: Residue masking. When updates[k] is Removed, or delete_storage_first
\* is true and the updates hold no entry for k, the sub-view returned by
\* load_entry_mut(k) is in its cleared (default) state, and after flush,
\* application of the batch and reload, entry k exists and holds none of the
\* sub-view data that was stored under k before the removal or clear.
C36_ResidueMasking ==
    /\ [][(last'.op = "load_entry_or_insert" /\ nops' # nops /\ MaskedEntry(last'.key))
            => ReturnedCleared]_vars
    /\ []FlushedCleared36

\* a value was stored under the key, the entry was removed and loaded again,
\* and the flush has left the entry in the store without the value
C36_Witness ==
    /\ Flushed
    /\ \E k \in DOMAIN snap.updates :
          /\ IsSet(snap.updates[k]) /\ snap.updates[k].view.dsf
          /\ ~snap.delete_storage_first
          /\ RegGet(load_subview(snap.store, k)) # DefaultVal
          /\ store_contains_key(store, get_index_key(k))
          /\ RegGet(load_subview(store, k)) = DefaultVal
\* the front order of every non-empty queue of the books has a non-zero amount
FrontNonZero(book_bids, book_asks) ==
    \A book \in {book_bids, book_asks} : \A price \in DOMAIN book :
        book[price] # <<>> => book[price][1].amount # 0

\* the order ids of a queue, front first
QueueIds(queue) == [i \in 1..Len(queue) |-> queue[i].order_id]

\* the queue of a level of the book, empty when the book has no such level
QueueAt(book, price) == IF price \in DOMAIN book THEN book[price] ELSE <<>>

\* the amount of the order at the i-th place of the queue was zero when
\* the call deleted it: it was zero before, or the fills of the call add up to
\* it, or the call cancelled all of it
ZeroWhenDeleted(queue, i, call) ==
    \/ queue[i].amount = 0
    \/ LET of_order == SelectSeq(call.fills, LAMBDA f : f.order_id = queue[i].order_id)
       IN SumFills(of_order) = queue[i].amount
    \/ /\ call.order.kind = "Cancel"
       /\ call.order.order_id = queue[i].order_id
    \/ /\ call.order.kind = "Modify"
       /\ call.order.order_id = queue[i].order_id
       /\ call.order.cancel_amount = queue[i].amount

\* what is left of the queue is what was behind the deleted front part: the
\* orders that the call deleted were at the front and zero, every other order
\* is in its place, and only an order with a new id may come behind them
SweptFront(before, after, call, first_new_id) ==
    \E n_remove \in 0..Len(before) :
        /\ \A i \in 1..n_remove : ZeroWhenDeleted(before, i, call)
        /\ Len(after) >= Len(before) - n_remove
        /\ \A i \in 1..(Len(before) - n_remove) :
              after[i].order_id = before[n_remove + i].order_id
        /\ \A i \in (Len(before) - n_remove + 1)..Len(after) :
              after[i].order_id >= first_new_id

\* C37: Zero-order sweep. After every completed Insert, Cancel or Modify, the
\* front order of every non-empty level queue has a non-zero amount; a
\* zero-amount order is deleted from a queue only when every order ahead of it
\* is also zero, so a zero-amount order behind a non-zero order stays in place.
C37_ZeroOrderSweep ==
    /\ [](FrontNonZero(bids, asks) /\ FrontNonZero(executed.after.bids, executed.after.asks))
    /\ [][executed'.n # executed.n =>
            /\ \A price \in DOMAIN bids \cup DOMAIN bids' :
                  SweptFront(QueueAt(bids, price), QueueAt(bids', price), executed',
                             next_order_number)
            /\ \A price \in DOMAIN asks \cup DOMAIN asks' :
                  SweptFront(QueueAt(asks, price), QueueAt(asks', price), executed',
                             next_order_number)]_vars

\* a Cancel of the second order of a level has left it in the queue with
\* amount zero, behind the first order
C37_Witness ==
    /\ executed.order.kind = "Cancel"
    /\ executed.err = "ok"
    /\ \E book \in {bids, asks} : \E price \in DOMAIN book :
          /\ Len(book[price]) = 2
          /\ book[price][1].amount # 0
          /\ book[price][2].amount = 0
          /\ book[price][2].order_id = executed.order.order_id
\* the price of the level is one that an order of this nature and price may
\* be cleared against
PriceMatches(nature, price_insert, price_level) ==
    IF nature = "Bid" THEN price_insert >= price_level ELSE price_insert <= price_level

\* the nature of the orders an order of this nature is matched with
Opposite38(nature) == IF nature = "Bid" THEN "Ask" ELSE "Bid"

\* C38: Match selection guard. An incoming Bid at price P is cleared only
\* against ask levels with price <= P and an incoming Ask only against bid
\* levels with price >= P, so the assertions price_insert >= price_level (Bid)
\* and price_insert <= price_level (Ask) in get_transfers hold on every call
\* reachable from insert_and_uncross_market: every level of the opposite side
\* whose queue the Insert has changed matches, and every fill, which is a call
\* of get_transfers, was made at a level that matches.
C38_MatchSelection ==
    [][(executed'.n # executed.n /\ executed'.order.kind = "Insert") =>
          /\ \A price_level \in DOMAIN BookOf(Opposite38(executed'.order.nature), bids, asks) :
                QueueAt(BookOf(Opposite38(executed'.order.nature), bids', asks'), price_level)
                    # BookOf(Opposite38(executed'.order.nature), bids, asks)[price_level]
                  => PriceMatches(executed'.order.nature, executed'.order.price, price_level)
          /\ \A i \in 1..Len(executed'.fills) :
                PriceMatches(executed'.order.nature, executed'.order.price,
                             executed'.fills[i].price_level)]_vars

\* an Ask was filled at a bid level that matches its price while a bid level
\* below its price rests in the book and was left alone
C38_Witness ==
    /\ executed.order.kind = "Insert"
    /\ executed.order.nature = "Ask"
    /\ executed.err = "ok"
    /\ executed.fills # <<>>
    /\ \E price_bid \in DOMAIN bids :
          /\ price_bid < executed.order.price
          /\ bids[price_bid] # <<>>
          /\ \A i \in 1..Len(executed.fills) : executed.fills[i].price_level # price_bid
\* the order id is in the orders of the owner in account_info
Indexed(owner, order_id) ==
    owner \in DOMAIN account_info /\ order_id \in account_info[owner]

\* an order with this id, this owner and a non-zero amount is in the queue of
\* the side and the price that orders records for the id
RestsWhereRecorded(owner, order_id) ==
    /\ order_id \in DOMAIN orders
    /\ LET key_book == orders[order_id]
           queue == QueueAt(BookOf(key_book.nature, bids, asks), key_book.price)
       IN \E i \in 1..Len(queue) :
             /\ queue[i].order_id = order_id
             /\ queue[i].owner = owner
             /\ queue[i].amount # 0

\* C39: Index consistency. After every completed Insert, Cancel or Modify, an
\* order id is in account_info[owner].orders if and only if an order with that
\* id, that owner and a non-zero amount sits in the queue of the side and price
\* level recorded for it in orders[id].
C39_IndexConsistency ==
    \A owner \in AccountOwners \cup DOMAIN account_info :
        \A order_id \in 0..next_order_number :
            Indexed(owner, order_id) <=> RestsWhereRecorded(owner, order_id)

\* an Insert has filled a resting order completely: its id has left the orders
\* of its owner, who still has another order in the book
C39_Witness ==
    /\ executed.order.kind = "Insert"
    /\ executed.err = "ok"
    /\ \E i \in 1..Len(executed.fills) :
          LET f == executed.fills[i]
          IN /\ ~Indexed(f.owner, f.order_id)
             /\ \E other \in account_info[f.owner] : RestsWhereRecorded(f.owner, other)
\* every level of the two books has an order in its queue
NoEmptyLevel(book_bids, book_asks) ==
    \A book \in {book_bids, book_asks} : \A price \in DOMAIN book : book[price] # <<>>

\* C40: No empty levels. After every completed Insert, Cancel or Modify
\* (successful or failed), every price level present in bids or asks has at
\* least one order in its queue; a level whose queue becomes empty is removed
\* from its collection.
C40_NoEmptyLevels ==
    NoEmptyLevel(bids, asks) /\ NoEmptyLevel(executed.after.bids, executed.after.asks)
====
